---- MODULE Spec2Model ----
(***************************************************************************)
(* A model of the pinky-wasm code generator (src/src/compiler.ts with its  *)
(* state, function table and runtime helpers under src/src/compiler/) and  *)
(* of the WebAssembly host that validates and runs the emitted module.     *)
(*                                                                         *)
(* Emitted bytecode is kept as a flat sequence of symbolic instructions    *)
(* [op, a]: one record per opcode with its immediate, in emission order.   *)
(* Strings are sequences of code points; f64 values are integers.          *)
(***************************************************************************)
EXTENDS Integers, Sequences, FiniteSets, TLC

\* ------------------------------------------------------------------ bounds
\* Largest number literal drawn for loop bounds and operands.
MaxNum == 2
\* Fuel of one run of main: the host is stopped after this many instructions.
MaxSteps == 150
\* Number of helper calls made on one memory when the helpers are called alone.
MaxCalls == 3

\* --------------------------------------------------------------- constants
PageSize == 65536
BoxSize == 16
TagNil == 0
TagNumber == 1
TagString == 2
TagBool == 3
I32T == 127
F64T == 124
VoidT == 64
\* `undefined` of JavaScript (a missing key of the record func() returns)
Undefined == -1

\* --------------------------------------------------------------------- AST
Num(v) == [type |-> "NumberLiteral", value |-> v]
Str(s) == [type |-> "StringLiteral", value |-> s]
Bool(b) == [type |-> "BooleanLiteral", value |-> b]
Ident(n) == [type |-> "Identifier", name |-> n]
Group(e) == [type |-> "GroupingExpression", expression |-> e]
Unary(o, e) == [type |-> "UnaryExpression", operator |-> o, argument |-> e]
Binary(o, l, r) ==
    [type |-> "BinaryExpression", operator |-> o, left |-> l, right |-> r]
FunctionCall(n, args) ==
    [type |-> "FunctionCallExpression", name |-> n, args |-> args]

PrintStmt(e) == [type |-> "PrintStatement", expression |-> e]
PrintlnStmt(e) == [type |-> "PrintlnStatement", expression |-> e]
Assign(n, e) == [type |-> "AssignStatement", identifier |-> n, expression |-> e]
LocalAssign(n, e) ==
    [type |-> "LocalAssignStatement", identifier |-> n, expression |-> e]
\* elifBranches is a sequence of [condition, body]; an absent elifBranches or
\* elseBranch is the empty sequence (the parser omits them when empty).
If(c, t, elifs, e) ==
    [type |-> "IfStatement", condition |-> c, thenBranch |-> t,
     elifBranches |-> elifs, elseBranch |-> e]
While(c, b) == [type |-> "WhileStatement", condition |-> c, body |-> b]
\* hasInc = FALSE is a for statement without a step expression
For(n, start, cond, hasInc, inc, b) ==
    [type |-> "ForStatement", assignment |-> Assign(n, start),
     condition |-> cond, hasIncrement |-> hasInc, increment |-> inc, body |-> b]
FunctionDecl(n, params, b) ==
    [type |-> "FunctionDeclStatement", name |-> n, params |-> params, body |-> b]
Return(e) == [type |-> "ReturnStatement", expression |-> e]
ExprStmt(e) == [type |-> "ExpressionStatement", expression |-> e]
Program(b) == [type |-> "Program", body |-> b]

\* ----------------------------------------------------------- instructions
I(o, a) == [op |-> o, a |-> a]
\* unsignedLEB starts with value >>> 0, which turns undefined into 0
ToUint32(v) == IF v = Undefined THEN 0 ELSE v
local_get(i) == <<I("local.get", ToUint32(i))>>
local_set(i) == <<I("local.set", ToUint32(i))>>
fn_call(i) == <<I("call", ToUint32(i))>>
i32_const(v) == <<I("i32.const", v)>>
f64_const(v) == <<I("f64.const", v)>>
if_start(t) == <<I("if", t)>>
if_else == <<I("else", 0)>>
control_end == <<I("end", 0)>>
block_start == <<I("block", VoidT)>>
loop_start == <<I("loop", VoidT)>>
loop_br(n) == <<I("br", n)>>
loop_br_if(n) == <<I("br_if", n)>>

nativeBinOps ==
    [o \in {"+", "-", "*", "/", "==", "~=", "<", ">", "<=", ">="} |->
        CASE o = "+" -> "f64.add" [] o = "-" -> "f64.sub"
          [] o = "*" -> "f64.mul" [] o = "/" -> "f64.div"
          [] o = "==" -> "f64.eq" [] o = "~=" -> "f64.ne"
          [] o = "<" -> "f64.lt" [] o = ">" -> "f64.gt"
          [] o = "<=" -> "f64.le" [] o = ">=" -> "f64.ge"]
comparisonOps == {"==", "~=", ">", ">=", "<", "<="}

\* --------------------------------------------------------- function table
importFunctions ==
    << [name |-> "print", params |-> <<I32T>>, results |-> <<>>],
       [name |-> "println", params |-> <<I32T>>, results |-> <<>>],
       [name |-> "to_string", params |-> <<I32T>>, results |-> <<I32T>>],
       [name |-> "math_pow", params |-> <<F64T, F64T>>, results |-> <<F64T>>] >>
definedFunctions ==
    << [name |-> "main", params |-> <<>>, results |-> <<>>],
       [name |-> "mod", params |-> <<F64T, F64T>>, results |-> <<F64T>>],
       [name |-> "is_truthy", params |-> <<I32T>>, results |-> <<I32T>>],
       [name |-> "is_string", params |-> <<I32T>>, results |-> <<I32T>>],
       [name |-> "is_bool", params |-> <<I32T>>, results |-> <<I32T>>],
       [name |-> "to_number", params |-> <<I32T>>, results |-> <<I32T>>],
       [name |-> "concat", params |-> <<I32T, I32T>>, results |-> <<I32T>>],
       [name |-> "memory_copy", params |-> <<I32T, I32T, I32T>>, results |-> <<>>],
       [name |-> "box_number", params |-> <<F64T>>, results |-> <<I32T>>],
       [name |-> "unbox_number", params |-> <<I32T>>, results |-> <<F64T>>],
       [name |-> "box_bool", params |-> <<I32T>>, results |-> <<I32T>>],
       [name |-> "box_string", params |-> <<I32T, I32T>>, results |-> <<I32T>>],
       [name |-> "box_nil", params |-> <<>>, results |-> <<I32T>>],
       [name |-> "ensure_space", params |-> <<I32T>>, results |-> <<>>] >>

\* All functions of a module in index order: imports, defined, user-defined.
allFunctions(udfs) == importFunctions \o definedFunctions \o udfs

\* func()[name]: the list is filled by successive assignment, so a name that
\* occurs twice keeps its last index; a name that never occurs is undefined.
func(udfs, name) ==
    LET all == allFunctions(udfs)
        hits == {k \in 1..Len(all) : all[k].name = name}
    IN  IF hits = {} THEN Undefined
        ELSE (CHOOSE k \in hits : \A j \in hits : j <= k) - 1

\* A function body: its local declarations and its code. The body of a
\* runtime helper is kept as one instruction named after the helper; what
\* the helper's code does is given by the helper operators below.
Body(n, code) == [nlocals |-> n, code |-> code]
builtInFuncBodies ==
    [k \in 1..Len(definedFunctions) |->
        [name |-> definedFunctions[k].name,
         body |-> IF definedFunctions[k].name = "main" THEN Body(0, <<>>)
                  ELSE Body(0, <<I(definedFunctions[k].name, 0)>>)]]

\* ------------------------------------------------------------ string table
\* createStringTable: table keeps (string, offset) in insertion order.
NewStringTable == [table |-> <<>>, memoryOffset |-> 0]
\* TextEncoder.encode: the UTF-8 bytes of a string given as its code points
\* (one byte below 128, two bytes below 2048).
RECURSIVE encode(_)
encode(str) ==
    IF str = <<>> THEN <<>>
    ELSE (IF Head(str) < 128 THEN <<Head(str)>>
          ELSE <<192 + (Head(str) \div 64), 128 + (Head(str) % 64)>>)
         \o encode(Tail(str))
\* getOffset without the lookup: every call adds an entry
getOffsetAnew(strings, str) ==
    [offset |-> strings.memoryOffset,
     strings |->
        [table |-> Append(strings.table,
                          [str |-> str, offset |-> strings.memoryOffset]),
         memoryOffset |-> strings.memoryOffset + Len(encode(str)) + 1]]
getOffset(strings, str) ==
    LET hits == {k \in 1..Len(strings.table) : strings.table[k].str = str}
    IN  IF hits # {}
        THEN [offset |-> strings.table[CHOOSE k \in hits : TRUE].offset,
              strings |-> strings]
        ELSE [offset |-> strings.memoryOffset,
              strings |->
                [table |-> Append(strings.table,
                                  [str |-> str, offset |-> strings.memoryOffset]),
                 memoryOffset |-> strings.memoryOffset + Len(encode(str)) + 1]]
RECURSIVE getBytesFrom(_, _)
getBytesFrom(table, k) ==
    IF k > Len(table) THEN <<>>
    ELSE encode(table[k].str) \o <<0>> \o getBytesFrom(table, k + 1)
getBytes(strings) == getBytesFrom(strings.table, 1)

\* ------------------------------------------------------------ compile state
\* The module-level state of compiler/state.ts and compiler/functions.ts plus
\* the string table of the running compile, threaded through the compiler.
\* err is the exception in flight: once set, every later step is skipped.
NoErr == "none"
NoScratch == -1
\* A Map<string, VarInfo>: its entries [name, index] in insertion order.
EmptyScope == <<>>
ScopeHas(scope, name) == \E k \in 1..Len(scope) : scope[k].name = name
ScopeGet(scope, name) ==
    scope[CHOOSE k \in 1..Len(scope) : scope[k].name = name].index
ScopeSet(scope, name, index) ==
    IF ScopeHas(scope, name)
    THEN [k \in 1..Len(scope) |->
            IF scope[k].name = name THEN [name |-> name, index |-> index]
            ELSE scope[k]]
    ELSE Append(scope, [name |-> name, index |-> index])

ResetState ==
    [scopes |-> <<EmptyScope>>,
     nextLocalVarsIndex |-> 0,
     scratchIndex |-> NoScratch,
     userDefinedFunctions |-> <<>>,
     functionBodies |-> builtInFuncBodies,
     strings |-> NewStringTable,
     err |-> NoErr,
     message |-> ""]

Throw(st, kind, msg) ==
    IF st.err # NoErr THEN st ELSE [st EXCEPT !.err = kind, !.message = msg]

enterScope(st) ==
    IF st.err # NoErr THEN st
    ELSE [st EXCEPT !.scopes = Append(@, EmptyScope)]
exitScope(st) ==
    IF st.err # NoErr THEN st
    ELSE [st EXCEPT !.scopes = SubSeq(@, 1, Len(@) - 1)]

\* the last scope, whether or not an enclosing scope binds the name
findCurrentScope(scopes, name) == Len(scopes)
\* The position in scopes of the innermost scope binding name, else the last.
findScopeForVar(scopes, name) ==
    LET hits == {k \in 1..Len(scopes) : ScopeHas(scopes[k], name)}
    IN  IF hits = {} THEN Len(scopes)
        ELSE CHOOSE k \in hits : \A j \in hits : j <= k

declareVar(st, name, isLocal) ==
    IF st.err # NoErr THEN [st |-> st, index |-> Undefined]
    ELSE IF isLocal /\ ScopeHas(st.scopes[Len(st.scopes)], name)
    THEN [st |-> Throw(st, "Error", "already declared in current scope"),
          index |-> Undefined]
    ELSE LET k == IF isLocal THEN Len(st.scopes)
                  ELSE findScopeForVar(st.scopes, name)
             has == ScopeHas(st.scopes[k], name)
             index == IF has THEN ScopeGet(st.scopes[k], name)
                      ELSE st.nextLocalVarsIndex
         IN  [st |-> [st EXCEPT
                        !.scopes[k] = ScopeSet(@, name, index),
                        !.nextLocalVarsIndex = IF has THEN @ ELSE @ + 1],
              index |-> index]

getVar(st, name) ==
    LET k == findScopeForVar(st.scopes, name)
    IN  IF ScopeHas(st.scopes[k], name) THEN ScopeGet(st.scopes[k], name)
        ELSE Undefined

getScratchIndex(st) ==
    IF st.err # NoErr THEN [st |-> st, index |-> Undefined]
    ELSE IF st.scratchIndex = NoScratch
    THEN [st |-> [st EXCEPT !.scratchIndex = st.nextLocalVarsIndex,
                            !.nextLocalVarsIndex = @ + 1],
          index |-> st.nextLocalVarsIndex]
    ELSE [st |-> st, index |-> st.scratchIndex]

\* getLocalDecls: one group of nextLocalVarsIndex i32 locals
getLocalDecls(st) == st.nextLocalVarsIndex

addUserDefinedFunction(st, name, params, results) ==
    IF st.err # NoErr THEN st
    ELSE IF \E k \in 1..Len(st.userDefinedFunctions) :
                st.userDefinedFunctions[k].name = name
    THEN Throw(st, "Error", "already defined")
    ELSE [st EXCEPT !.userDefinedFunctions =
            Append(@, [name |-> name, params |-> params, results |-> results])]

addFunctionBody(st, name, body) ==
    IF st.err # NoErr THEN st
    ELSE [st EXCEPT !.functionBodies =
            IF \E k \in 1..Len(@) : @[k].name = name
            THEN [k \in 1..Len(@) |->
                    IF @[k].name = name THEN [name |-> name, body |-> body]
                    ELSE @[k]]
            ELSE Append(@, [name |-> name, body |-> body])]

\* hasReturn(body): whether a ret occurs anywhere in the body, on any path.
RECURSIVE hasReturn(_), hasReturnElifs(_)
hasReturn(body) ==
    \E k \in 1..Len(body) :
        LET stmt == body[k] IN
        CASE stmt.type = "ReturnStatement" -> TRUE
          [] stmt.type = "IfStatement" ->
                \/ hasReturn(stmt.thenBranch)
                \/ hasReturnElifs(stmt.elifBranches)
                \/ hasReturn(stmt.elseBranch)
          [] stmt.type \in {"WhileStatement", "ForStatement"} ->
                hasReturn(stmt.body)
          [] OTHER -> FALSE
hasReturnElifs(elifs) ==
    \E k \in 1..Len(elifs) : hasReturn(elifs[k].body)

\* ---------------------------------------------------------------- compiler
R(code, st) == [code |-> code, st |-> st]
Call(st, name) == fn_call(func(st.userDefinedFunctions, name))

RECURSIVE compileExpression(_, _), compileArgs(_, _, _)
compileExpression(expr, st) ==
    IF st.err # NoErr THEN R(<<>>, st)
    ELSE CASE expr.type = "StringLiteral" ->
        LET r == getOffset(st.strings, expr.value) IN
        R(i32_const(r.offset) \o i32_const(Len(encode(expr.value)))
            \o Call(st, "box_string"),
          [st EXCEPT !.strings = r.strings])
    [] expr.type = "NumberLiteral" ->
        R(f64_const(expr.value) \o Call(st, "box_number"), st)
    [] expr.type = "BooleanLiteral" ->
        R(i32_const(IF expr.value THEN 1 ELSE 0) \o Call(st, "box_bool"), st)
    [] expr.type = "Identifier" ->
        LET index == getVar(st, expr.name) IN
        IF index = Undefined
        THEN R(<<>>, Throw(st, "CompilerError", "is not declared"))
        ELSE R(local_get(index), st)
    [] expr.type = "GroupingExpression" ->
        compileExpression(expr.expression, st)
    [] expr.type = "BinaryExpression" ->
        LET left == compileExpression(expr.left, st)
            right == compileExpression(expr.right, left.st)
            st2 == right.st
        IN  IF expr.operator \in DOMAIN nativeBinOps
            THEN R(left.code \o Call(st2, "unbox_number")
                    \o right.code \o Call(st2, "unbox_number")
                    \o <<I(nativeBinOps[expr.operator], 0)>>
                    \o (IF expr.operator \in comparisonOps
                        THEN Call(st2, "box_bool")
                        ELSE Call(st2, "box_number")),
                   st2)
            ELSE CASE expr.operator = "%" ->
                R(left.code \o Call(st2, "unbox_number")
                    \o right.code \o Call(st2, "unbox_number")
                    \o Call(st2, "mod") \o Call(st2, "box_number"), st2)
            [] expr.operator = "^" ->
                R(left.code \o Call(st2, "unbox_number")
                    \o right.code \o Call(st2, "unbox_number")
                    \o Call(st2, "pow") \o Call(st2, "box_number"), st2)
            [] expr.operator = "and" ->
                LET s == getScratchIndex(st2) IN
                R(left.code
                    \o local_set(s.index) \o local_get(s.index)
                    \o Call(s.st, "is_truthy")
                    \o if_start(I32T)
                    \o right.code
                    \o if_else
                    \o local_get(s.index)
                    \o control_end,
                  s.st)
            [] expr.operator = "or" ->
                LET s == getScratchIndex(st2) IN
                R(left.code
                    \o local_set(s.index) \o local_get(s.index)
                    \o Call(s.st, "is_truthy")
                    \o if_start(I32T)
                    \o local_get(s.index)
                    \o if_else
                    \o right.code
                    \o control_end,
                  s.st)
            [] OTHER -> R(<<>>, Throw(st2, "Error", "Unsupported binary operator"))
    [] expr.type = "UnaryExpression" ->
        CASE expr.operator = "+" -> compileExpression(expr.argument, st)
        [] expr.operator = "-" ->
            IF expr.argument.type = "NumberLiteral"
            THEN R(f64_const(0 - expr.argument.value) \o Call(st, "box_number"),
                   st)
            ELSE LET arg == compileExpression(expr.argument, st) IN
                 R(arg.code \o Call(arg.st, "unbox_number")
                    \o <<I("f64.neg", 0)>> \o Call(arg.st, "box_number"),
                   arg.st)
        [] expr.operator = "~" ->
            LET arg == compileExpression(expr.argument, st) IN
            R(arg.code \o Call(arg.st, "unbox_number")
                \o f64_const(0) \o <<I("f64.eq", 0)>>
                \o Call(arg.st, "box_bool"),
              arg.st)
        [] OTHER -> R(<<>>, Throw(st, "Error", "Unsupported unary operator"))
    [] expr.type = "FunctionCallExpression" ->
        LET udfs == st.userDefinedFunctions
            hits == {k \in 1..Len(udfs) : udfs[k].name = expr.name}
        IN  IF hits = {}
            THEN R(<<>>, Throw(st, "CompilerError", "is not defined"))
            ELSE LET f == udfs[CHOOSE k \in hits : \A j \in hits : k <= j] IN
                 IF Len(f.params) # Len(expr.args)
                 THEN R(<<>>, Throw(st, "CompilerError", "expects arguments"))
                 ELSE LET args == compileArgs(expr.args, 1, st) IN
                      R(args.code \o Call(args.st, expr.name), args.st)
    [] OTHER -> R(<<>>, Throw(st, "Error", "Something went wrong"))

\* the arguments compiled from the last one to the first
RECURSIVE compileArgsReversed(_, _, _)
compileArgsReversed(args, k, st) ==
    IF k > Len(args) THEN R(<<>>, st)
    ELSE LET rest == compileArgsReversed(args, k + 1, st)
             a == compileExpression(args[k], rest.st)
         IN  R(rest.code \o a.code, a.st)
compileArgs(args, k, st) ==
    IF k > Len(args) THEN R(<<>>, st)
    ELSE LET a == compileExpression(args[k], st)
             rest == compileArgs(args, k + 1, a.st)
         IN  R(a.code \o rest.code, rest.st)

RECURSIVE compileStatements(_, _, _), compileStatement(_, _),
          compileElifs(_, _, _, _), declareParams(_, _, _)
\* Each step of a statement's compilation is an operator of its own that
\* takes what the earlier steps returned, in the order the code runs them.
Prepend(code, r) == R(code \o r.code, r.st)
Exit(r) == R(r.code, exitScope(r.st))
IsTruthy(st) == Call(st, "is_truthy")

\* compileStatements(statements, strings): statements k.. of the list
ThenRest(statements, k, bytes) ==
    Prepend(bytes.code, compileStatements(statements, k + 1, bytes.st))
compileStatements(statements, k, st) ==
    IF k > Len(statements) THEN R(<<>>, st)
    ELSE ThenRest(statements, k, compileStatement(statements[k], st))

\* print, println and ret: the expression, then the call
ThenCall(bytes, name) == R(bytes.code \o Call(bytes.st, name), bytes.st)

\* x := e and local x := e: the expression, then the variable, then the set
ThenSet(bytes, varInfo) == R(bytes.code \o local_set(varInfo.index), varInfo.st)
ThenDeclare(stmt, bytes) ==
    ThenSet(bytes, declareVar(bytes.st, stmt.identifier,
                              stmt.type = "LocalAssignStatement"))

\* the elif branches i, i-1, .. 1, each wrapped around the else block so far
ElifWrap(elifs, i, elseBlock, condition, elifBranch) ==
    compileElifs(elifs, i - 1,
        condition.code \o IsTruthy(elifBranch.st)
            \o if_start(VoidT) \o elifBranch.code
            \o if_else \o elseBlock \o control_end,
        elifBranch.st)
ElifBody(elifs, i, elseBlock, condition) ==
    ElifWrap(elifs, i, elseBlock, condition,
        Exit(compileStatements(elifs[i].body, 1, enterScope(condition.st))))
compileElifs(elifs, i, elseBlock, st) ==
    IF i < 1 THEN R(elseBlock, st)
    ELSE ElifBody(elifs, i, elseBlock, compileExpression(elifs[i].condition, st))

\* the code of an if with the then branch and the rest changing places
IfCodeSwapped(condition, thenBranch, elifs) ==
    R(condition.code \o IsTruthy(elifs.st)
        \o if_start(VoidT) \o elifs.code
        \o if_else \o thenBranch.code \o control_end,
      elifs.st)
\* if: condition, then branch, else branch, elif branches, and the code
IfCode(condition, thenBranch, elifs) ==
    R(condition.code \o IsTruthy(elifs.st)
        \o if_start(VoidT) \o thenBranch.code
        \o if_else \o elifs.code \o control_end,
      elifs.st)
IfElifs(stmt, condition, thenBranch, elseBlock) ==
    IfCode(condition, thenBranch,
        compileElifs(stmt.elifBranches, Len(stmt.elifBranches),
                     elseBlock.code, elseBlock.st))
IfElse(stmt, condition, thenBranch) ==
    IfElifs(stmt, condition, thenBranch,
        IF stmt.elseBranch # <<>>
        THEN Exit(compileStatements(stmt.elseBranch, 1, enterScope(thenBranch.st)))
        ELSE R(<<>>, thenBranch.st))
IfThen(stmt, condition) ==
    IfElse(stmt, condition,
        Exit(compileStatements(stmt.thenBranch, 1, enterScope(condition.st))))

\* while: condition in one scope, body in a scope inside it
WhileCode(condition, body) ==
    R(block_start \o loop_start
        \o condition.code \o IsTruthy(body.st)
        \o <<I("i32.eqz", 0)>> \o loop_br_if(1)
        \o body.code
        \o loop_br(0)
        \o control_end \o control_end,
      exitScope(exitScope(body.st)))
WhileBody(stmt, condition) ==
    WhileCode(condition, compileStatements(stmt.body, 1, enterScope(condition.st)))

\* for: the assignment, the loop variable, the end, the step, the body, the
\* scratch local holding the direction, and the code
ForCode(init, loopVar, cond, step, loopBody, isDescending) ==
    LET unbox == Call(isDescending.st, "unbox_number") IN
    R(init.code
        \o step.code \o unbox
        \o f64_const(0) \o <<I("f64.lt", 0)>>
        \o local_set(isDescending.index)
        \o block_start \o loop_start
        \o local_get(isDescending.index)
        \o if_start(I32T)
        \o local_get(loopVar) \o unbox
        \o cond.code \o unbox
        \o <<I("f64.lt", 0)>>
        \o if_else
        \o local_get(loopVar) \o unbox
        \o cond.code \o unbox
        \o <<I("f64.gt", 0)>>
        \o control_end
        \o loop_br_if(1)
        \o loopBody.code
        \o local_get(loopVar) \o unbox
        \o step.code \o unbox
        \o <<I("f64.add", 0)>>
        \o Call(isDescending.st, "box_number")
        \o local_set(loopVar)
        \o loop_br(0)
        \o control_end \o control_end,
      isDescending.st)
ForBody(init, loopVar, cond, step, loopBody) ==
    ForCode(init, loopVar, cond, step, loopBody,
            getScratchIndex(exitScope(exitScope(loopBody.st))))
\* the step expression compiled but the loop stepping by 1
ForStepOne(stmt, init, loopVar, cond, step) ==
    ForBody(init, loopVar, cond,
            R(f64_const(1) \o Call(step.st, "box_number"), step.st),
            compileStatements(stmt.body, 1, step.st))
ForStep(stmt, init, loopVar, cond, step) ==
    ForBody(init, loopVar, cond, step, compileStatements(stmt.body, 1, step.st))
ForCond(stmt, init, loopVar, cond) ==
    ForStep(stmt, init, loopVar, cond,
        IF stmt.hasIncrement THEN compileExpression(stmt.increment, cond.st)
        ELSE R(f64_const(1) \o Call(cond.st, "box_number"), cond.st))
ForVar(stmt, init, loopVar) ==
    IF init.st.err = NoErr /\ loopVar = Undefined
    THEN R(<<>>, Throw(init.st, "CompilerError", "is not declared"))
    ELSE ForCond(stmt, init, loopVar,
            compileExpression(stmt.condition, enterScope(init.st)))
ForInit(stmt, init) ==
    ForVar(stmt, init, getVar(init.st, stmt.assignment.identifier))

\* func: the signature, the parameters in a new scope with the local index
\* at 0, the body, and the body's registration with the index restored
declareParams(params, k, st) ==
    IF k > Len(params) THEN st
    ELSE declareParams(params, k + 1, declareVar(st, params[k], TRUE).st)
FunctionStore(stmt, prevIndex, code, st) ==
    R(<<>>, addFunctionBody(
                IF st.err # NoErr THEN st
                ELSE [st EXCEPT !.nextLocalVarsIndex = prevIndex],
                stmt.name, Body(getLocalDecls(st), code \o control_end)))
FunctionBody(stmt, prevIndex, bodyBytes) ==
    FunctionStore(stmt, prevIndex, bodyBytes.code, exitScope(bodyBytes.st))
FunctionParams(stmt, prevIndex, st) ==
    FunctionBody(stmt, prevIndex,
        compileStatements(stmt.body, 1,
            declareParams(stmt.params, 1,
                enterScope(IF st.err # NoErr THEN st
                           ELSE [st EXCEPT !.nextLocalVarsIndex = 0]))))
FunctionDeclare(stmt, st) ==
    FunctionParams(stmt, st.nextLocalVarsIndex,
        addUserDefinedFunction(st, stmt.name,
            [k \in 1..Len(stmt.params) |-> I32T],
            IF hasReturn(stmt.body) THEN <<I32T>> ELSE <<>>))

compileStatement(stmt, st) ==
    IF st.err # NoErr THEN R(<<>>, st)
    ELSE CASE stmt.type = "PrintlnStatement" ->
        ThenCall(compileExpression(stmt.expression, st), "println")
    [] stmt.type = "PrintStatement" ->
        ThenCall(compileExpression(stmt.expression, st), "print")
    [] stmt.type \in {"LocalAssignStatement", "AssignStatement"} ->
        ThenDeclare(stmt, compileExpression(stmt.expression, st))
    [] stmt.type = "IfStatement" ->
        IfThen(stmt, compileExpression(stmt.condition, st))
    [] stmt.type = "WhileStatement" ->
        WhileBody(stmt, compileExpression(stmt.condition, enterScope(st)))
    [] stmt.type = "ForStatement" ->
        ForInit(stmt, compileStatement(stmt.assignment, enterScope(st)))
    [] stmt.type = "FunctionDeclStatement" ->
        IF \E k \in 1..Len(st.userDefinedFunctions) :
                st.userDefinedFunctions[k].name = stmt.name
        THEN R(<<>>, Throw(st, "CompilerError", "is already defined"))
        ELSE FunctionDeclare(stmt, st)
    [] stmt.type = "ReturnStatement" ->
        ThenCall(compileExpression(stmt.expression, st), "ret")
    [] stmt.type = "ExpressionStatement" ->
        compileExpression(stmt.expression, st)
    [] OTHER -> R(<<>>, Throw(st, "Error", "Something went wrong"))

MainBody(instructions) ==
    R(Body(getLocalDecls(instructions.st), instructions.code \o control_end),
      instructions.st)
mainFuncBody(ast, st) == MainBody(compileStatements(ast.body, 1, st))

\* ------------------------------------------------------- module assembly
TypeOf(f) == [params |-> f.params, results |-> f.results]
RECURSIVE getFunctionTypesFrom(_, _, _)
getFunctionTypesFrom(all, k, acc) ==
    IF k > Len(all) THEN acc
    ELSE getFunctionTypesFrom(all, k + 1,
            IF \E j \in 1..Len(acc) : acc[j] = TypeOf(all[k]) THEN acc
            ELSE Append(acc, TypeOf(all[k])))
\* the distinct signatures in first-encounter order
getFunctionTypes(udfs) ==
    getFunctionTypesFrom(definedFunctions \o importFunctions \o udfs, 1, <<>>)
functionIndex(types, f) ==
    (CHOOSE j \in 1..Len(types) : types[j] = TypeOf(f)) - 1

BodyHas(bodies, name) == \E k \in 1..Len(bodies) : bodies[k].name = name
BodyOf(bodies, name) ==
    bodies[CHOOSE k \in 1..Len(bodies) : bodies[k].name = name].body

\* _compile after its resets and the compilation of main: the sections of
\* the module, in emission order; nothing is assembled once an exception is
\* in flight
Assemble(st) ==
    LET udfs == st.userDefinedFunctions
        functionTypes == getFunctionTypes(udfs)
        defined == definedFunctions \o udfs
        stringBytes == getBytes(st.strings)
    IN  IF st.err # NoErr THEN <<>> ELSE
        << [id |-> 0, magic |-> <<0, 97, 115, 109, 1, 0, 0, 0>>],
           [id |-> 1, types |-> functionTypes],
           [id |-> 2,
            imports |-> [k \in 1..Len(importFunctions) |->
                 [name |-> importFunctions[k].name,
                  type |-> functionIndex(functionTypes, importFunctions[k])]]],
           [id |-> 3,
            types |-> [k \in 1..Len(defined) |->
                         functionIndex(functionTypes, defined[k])]],
           [id |-> 5, min |-> 1],
           [id |-> 6, init |-> Len(stringBytes) + 1],
           [id |-> 7, main |-> func(udfs, "main")],
           [id |-> 10,
            count |-> Len(st.functionBodies),
            bodies |-> [k \in 1..Len(defined) |->
                         BodyOf(st.functionBodies, defined[k].name)]],
           [id |-> 11, data |-> stringBytes] >>
AddMain(mainFunc) == addFunctionBody(mainFunc.st, "main", mainFunc.code)

\* compile(ast): the value returned and the module-level state left behind.
Returned(st) ==
    [bytes |-> Assemble(st),
     error |-> IF st.err = "CompilerError"
               THEN [name |-> "CompilerError", message |-> st.message]
               ELSE [name |-> "null", message |-> ""],
     strings |-> getBytes(st.strings),
     thrown |-> st.err,
     state |-> st]
\* The module-level state at the start of _compile, from the state the
\* earlier calls left: the scopes, the local index, the scratch index, the
\* user functions and the function bodies are reset, and compile has made a
\* new string table.
\* resets that leave the local index where the earlier calls left it
resetKeepingIndex(st) ==
    [ResetState EXCEPT !.nextLocalVarsIndex = st.nextLocalVarsIndex]
resetAll(st) ==
    [st EXCEPT !.scopes = <<EmptyScope>>,
               !.nextLocalVarsIndex = 0,
               !.scratchIndex = NoScratch,
               !.userDefinedFunctions = <<>>,
               !.functionBodies = builtInFuncBodies,
               !.strings = NewStringTable,
               !.err = NoErr,
               !.message = ""]
\* state is the module-level state before the call
compile(ast, state) == Returned(AddMain(mainFuncBody(ast, resetAll(state))))

\* ------------------------------------------------------------ linear memory
\* The instance's memory and heap pointer. mem maps an address to the value
\* last stored there (an i32 field, an f64 field or one byte); an address
\* never stored to reads as 0. events is the sequence of ensure_space calls
\* and stores made by the helper call in progress, in program order.
\* Addresses and sizes stay far below 2^31 here, so i32 arithmetic never wraps.
MaxPages == 65536

NewHeap(data, pages) ==
    [heap_ptr |-> Len(data) + 1,
     pages |-> pages,
     mem |-> [a \in 0..(Len(data) - 1) |-> data[a + 1]],
     trap |-> FALSE,
     events |-> <<>>]

load(h, addr) == IF addr \in DOMAIN h.mem THEN h.mem[addr] ELSE 0
InBounds(h, addr, size) == addr >= 0 /\ addr + size <= h.pages * PageSize
store(h, addr, size, v) ==
    IF h.trap THEN h
    ELSE IF ~InBounds(h, addr, size) THEN [h EXCEPT !.trap = TRUE]
    ELSE [h EXCEPT !.mem = (addr :> v) @@ @,
                   !.events = Append(@, [ev |-> "store", addr |-> addr,
                                         n |-> size])]
loadChecked(h, addr, size) ==
    [h |-> IF h.trap \/ InBounds(h, addr, size) THEN h
           ELSE [h EXCEPT !.trap = TRUE],
     result |-> load(h, addr)]
\* a global.set of the offset itself, without the global.get and the add
setToOffset(h, offset) ==
    IF h.trap THEN h ELSE [h EXCEPT !.heap_ptr = offset]
\* global.setFromOffset(offset): heap_ptr := heap_ptr + offset
setFromOffset(h, offset) ==
    IF h.trap THEN h ELSE [h EXCEPT !.heap_ptr = (@ + offset)]
\* memory.grow: the page count grows unless the result would pass the limit
memory_grow(h, delta) ==
    IF h.pages + delta <= MaxPages THEN [h EXCEPT !.pages = @ + delta] ELSE h

\* ---------------------------------------------------------- runtime helpers
ensureSpaceFunctionBody(h, sizeNeeded) ==
    IF h.trap THEN h
    ELSE LET currentPtr == h.heap_ptr
             h1 == [h EXCEPT !.events =
                        Append(@, [ev |-> "ensure", addr |-> currentPtr,
                                   n |-> sizeNeeded])]
         IN  IF (currentPtr + sizeNeeded) > (h.pages * PageSize)
             THEN memory_grow(h1, (sizeNeeded + (PageSize - 1)) \div PageSize)
             ELSE h1

boxNumberFunctionBody(h, value) ==
    LET h1 == ensureSpaceFunctionBody(h, BoxSize)
        temp_ptr == h1.heap_ptr
        h2 == store(h1, temp_ptr, 4, TagNumber)
        h3 == store(h2, temp_ptr + 8, 8, value)
    IN  [h |-> setFromOffset(h3, BoxSize), result |-> temp_ptr]

unboxNumberFunctionBody(h, ptr) == loadChecked(h, ptr + 8, 8)

boxStringFunctionBody(h, offset, length) ==
    LET h1 == ensureSpaceFunctionBody(h, BoxSize)
        temp_ptr == h1.heap_ptr
        h2 == store(h1, temp_ptr, 4, TagString)
        h3 == store(h2, temp_ptr + 4, 4, offset)
        h4 == store(h3, temp_ptr + 8, 4, length)
    IN  [h |-> setFromOffset(h4, BoxSize), result |-> temp_ptr]

boxBooleanFunctionBody(h, value) ==
    LET h1 == ensureSpaceFunctionBody(h, BoxSize)
        temp_ptr == h1.heap_ptr
        h2 == store(h1, temp_ptr, 4, TagBool)
        h3 == store(h2, temp_ptr + 4, 4, value)
    IN  [h |-> setFromOffset(h3, BoxSize), result |-> temp_ptr]

\* box_nil stores the tag at heap_ptr, advances heap_ptr and returns the
\* value heap_ptr has then.
boxNilFunctionBody(h) ==
    LET h1 == store(h, h.heap_ptr, 4, TagNil)
        h2 == setFromOffset(h1, BoxSize)
    IN  [h |-> h2, result |-> h2.heap_ptr]

\* an is_truthy that answers 1, and one that answers 0, whatever the box
isTruthyAlways(h, ptr) == [h |-> h, result |-> 1]
isTruthyNever(h, ptr) == [h |-> h, result |-> 0]
\* an is_truthy that takes every string for truthy
isTruthyByTag(h, ptr) ==
    LET tag == load(h, ptr) IN
    [h |-> loadChecked(h, ptr, 4).h,
     result |->
        IF tag = TagNumber THEN (IF load(h, ptr + 8) # 0 THEN 1 ELSE 0)
        ELSE IF tag = TagBool THEN load(h, ptr + 4)
        ELSE IF tag = TagString THEN 1
        ELSE 0]
isTruthyFunctionBody(h, ptr) ==
    LET tag == load(h, ptr) IN
    [h |-> loadChecked(h, ptr, 4).h,
     result |->
        IF tag = TagNumber THEN (IF load(h, ptr + 8) # 0 THEN 1 ELSE 0)
        ELSE IF tag = TagBool THEN load(h, ptr + 4)
        ELSE IF tag = TagString THEN (IF load(h, ptr + 8) # 0 THEN 1 ELSE 0)
        ELSE 0]

\* memory_copy(from, to, len): bytes from+i -> to+i for i = 0 .. len-1
RECURSIVE memoryCopyFrom(_, _, _, _, _)
memoryCopyFrom(h, from, to, len, i) ==
    IF h.trap \/ i >= len THEN h
    ELSE LET byte == loadChecked(h, from + i, 1)
         IN  memoryCopyFrom(store(byte.h, to + i, 1, byte.result),
                            from, to, len, i + 1)
memoryCopyFunctionBody(h, from, to, len) == memoryCopyFrom(h, from, to, len, 0)

\* String(num) of the host for an integer, as bytes
RECURSIVE Digits(_)
Digits(n) == IF n < 10 THEN <<48 + n>> ELSE Digits(n \div 10) \o <<48 + (n % 10)>>
NumberString(n) == IF n < 0 THEN <<45>> \o Digits(0 - n) ELSE Digits(n)
\* "true" and "false"
BoolString(b) == IF b # 0 THEN <<116, 114, 117, 101>> ELSE <<102, 97, 108, 115, 101>>

\* The host's boxString(str, memory): the memory grows by one page, the bytes
\* go to its very end and a 12-byte string box goes right before them.
boxString(h, str) ==
    LET pages == h.pages + 1
        offset == pages * PageSize - Len(str)
        boxPtr == offset - 12
        written == [a \in offset..(offset + Len(str) - 1) |-> str[a - offset + 1]]
    IN  [h |-> [h EXCEPT !.pages = pages,
                         !.mem = (boxPtr :> TagString) @@ ((boxPtr + 4) :> offset)
                                 @@ ((boxPtr + 8) :> Len(str)) @@ written @@ @],
         result |-> boxPtr]

\* The host's to_string import: a string box is its own string form, any
\* other value gets a new string box.
to_string(h, boxPtr) ==
    LET tag == load(h, boxPtr) IN
    CASE tag = TagString -> [h |-> h, result |-> boxPtr]
    [] tag = TagNumber -> boxString(h, NumberString(load(h, boxPtr + 8)))
    [] tag = TagBool -> boxString(h, BoolString(load(h, boxPtr + 4)))
    [] OTHER -> boxString(h, <<>>)

\* concat: room for a box, both operands as strings, their bytes copied to
\* the heap pointer, the heap pointer moved past them, and the new string box
ConcatBox(h, resultOffset, length) ==
    IF h.trap THEN [h |-> h, result |-> 0]
    ELSE boxStringFunctionBody(h, resultOffset, length)
ConcatCopy(h, leftOffset, leftLength, rightOffset, rightLength, resultOffset) ==
    ConcatBox(
        setFromOffset(
            memoryCopyFunctionBody(
                memoryCopyFunctionBody(h, leftOffset, resultOffset, leftLength),
                rightOffset, resultOffset + leftLength, rightLength),
            leftLength + rightLength),
        resultOffset, leftLength + rightLength)
ConcatFields(h, l, r) ==
    ConcatCopy(h, load(h, l + 4), load(h, l + 8), load(h, r + 4), load(h, r + 8),
               h.heap_ptr)
ConcatRight(l, rs) == ConcatFields(rs.h, l, rs.result)
ConcatLeft(ls, right) == ConcatRight(ls.result, to_string(ls.h, right))
concatFunctionBody(h, left, right) ==
    ConcatLeft(to_string(ensureSpaceFunctionBody(h, BoxSize), left), right)

\* ------------------------------------------------- the host: decode, validate
\* The functions of a module in index order: the imports with their types,
\* then the defined functions with the types of the function section and
\* the bodies of the code section.
ModTypes(bytes) == bytes[2].types
ModImports(bytes) == bytes[3].imports
ModFuncTypes(bytes) == bytes[4].types
ModHeapInit(bytes) == bytes[6].init
ModMain(bytes) == bytes[7].main
ModCode(bytes) == bytes[8]
ModData(bytes) == bytes[9].data
NumImports(bytes) == Len(ModImports(bytes))
NumFuncs(bytes) == NumImports(bytes) + Len(ModFuncTypes(bytes))
FuncType(bytes, idx) ==
    ModTypes(bytes)[1 + (IF idx < NumImports(bytes)
                         THEN ModImports(bytes)[idx + 1].type
                         ELSE ModFuncTypes(bytes)[idx - NumImports(bytes) + 1])]
FuncBody(bytes, idx) == ModCode(bytes).bodies[idx - NumImports(bytes) + 1]
IsHelperBody(body) ==
    /\ Len(body.code) = 1
    /\ \E k \in 1..Len(definedFunctions) : definedFunctions[k].name = body.code[1].op

\* Validation of one function body: the operand stack of value types and the
\* control stack of frames [op, types, height, unreachable] (innermost last).
Frame(o, types, height) ==
    [op |-> o, types |-> types, height |-> height, unreachable |-> FALSE]
PopVal(v, t) ==
    IF ~v.ok THEN v
    ELSE LET top == v.ctrls[Len(v.ctrls)] IN
         IF Len(v.vals) = top.height
         THEN (IF top.unreachable THEN v ELSE [v EXCEPT !.ok = FALSE])
         ELSE IF v.vals[Len(v.vals)] = t
         THEN [v EXCEPT !.vals = SubSeq(@, 1, Len(@) - 1)]
         ELSE [v EXCEPT !.ok = FALSE]
RECURSIVE PopVals(_, _)
PopVals(v, types) ==
    IF types = <<>> THEN v
    ELSE PopVals(PopVal(v, types[Len(types)]), SubSeq(types, 1, Len(types) - 1))
PushVals(v, types) == IF ~v.ok THEN v ELSE [v EXCEPT !.vals = @ \o types]
\* the end of a frame: its result types are on top and nothing else is left
PopCtrl(v) ==
    IF ~v.ok THEN v
    ELSE LET top == v.ctrls[Len(v.ctrls)]
             w == PopVals(v, top.types)
         IN  IF w.ok /\ Len(w.vals) = top.height
             THEN [w EXCEPT !.ctrls = SubSeq(@, 1, Len(@) - 1)]
             ELSE [w EXCEPT !.ok = FALSE]
Unreachable(v) ==
    IF ~v.ok THEN v
    ELSE LET n == Len(v.ctrls) IN
         [v EXCEPT !.vals = SubSeq(@, 1, v.ctrls[n].height),
                   !.ctrls[n].unreachable = TRUE]
BlockTypes(a) == IF a = VoidT THEN <<>> ELSE <<a>>
\* the types a branch to the frame carries: none for a loop, else its results
LabelTypes(frame) == IF frame.op = "loop" THEN <<>> ELSE frame.types

F64BinOps == {"f64.add", "f64.sub", "f64.mul", "f64.div"}
F64RelOps == {"f64.eq", "f64.ne", "f64.lt", "f64.gt", "f64.le", "f64.ge"}

ValidateInstr(bytes, nvars, ins, v) ==
    CASE ins.op = "f64.const" -> PushVals(v, <<F64T>>)
    [] ins.op = "i32.const" -> PushVals(v, <<I32T>>)
    [] ins.op = "local.get" ->
        IF ins.a < nvars THEN PushVals(v, <<I32T>>) ELSE [v EXCEPT !.ok = FALSE]
    [] ins.op = "local.set" ->
        IF ins.a < nvars THEN PopVal(v, I32T) ELSE [v EXCEPT !.ok = FALSE]
    [] ins.op = "call" ->
        IF ins.a < NumFuncs(bytes)
        THEN PushVals(PopVals(v, FuncType(bytes, ins.a).params),
                      FuncType(bytes, ins.a).results)
        ELSE [v EXCEPT !.ok = FALSE]
    [] ins.op \in F64BinOps -> PushVals(PopVals(v, <<F64T, F64T>>), <<F64T>>)
    [] ins.op \in F64RelOps -> PushVals(PopVals(v, <<F64T, F64T>>), <<I32T>>)
    [] ins.op = "f64.neg" -> PushVals(PopVal(v, F64T), <<F64T>>)
    [] ins.op = "i32.eqz" -> PushVals(PopVal(v, I32T), <<I32T>>)
    [] ins.op \in {"block", "loop"} ->
        [v EXCEPT !.ctrls = Append(@, Frame(ins.op, BlockTypes(ins.a), Len(v.vals)))]
    [] ins.op = "if" ->
        LET w == PopVal(v, I32T) IN
        [w EXCEPT !.ctrls = Append(@, Frame("if", BlockTypes(ins.a), Len(w.vals)))]
    [] ins.op = "else" ->
        LET top == v.ctrls[Len(v.ctrls)]
            w == PopCtrl(v)
        IN  IF top.op # "if" THEN [v EXCEPT !.ok = FALSE]
            ELSE [w EXCEPT !.ctrls = Append(@, Frame("else", top.types, Len(w.vals)))]
    [] ins.op = "end" ->
        LET top == v.ctrls[Len(v.ctrls)] IN
        PushVals(PopCtrl(v), IF top.op = "func" THEN <<>> ELSE top.types)
    [] ins.op = "br" ->
        IF ins.a < Len(v.ctrls)
        THEN Unreachable(PopVals(v, LabelTypes(v.ctrls[Len(v.ctrls) - ins.a])))
        ELSE [v EXCEPT !.ok = FALSE]
    [] ins.op = "br_if" ->
        IF ins.a < Len(v.ctrls)
        THEN LET w == PopVal(v, I32T)
                 types == LabelTypes(v.ctrls[Len(v.ctrls) - ins.a])
             IN  PushVals(PopVals(w, types), types)
        ELSE [v EXCEPT !.ok = FALSE]
    [] OTHER -> [v EXCEPT !.ok = FALSE]

\* the state of the validation after the instructions lo..hi, by halves
RECURSIVE ValidateRange(_, _, _, _, _, _)
ValidateRange(bytes, nvars, code, lo, hi, v) ==
    IF ~v.ok \/ lo > hi THEN v
    ELSE IF lo = hi
    THEN (IF v.ctrls = <<>> THEN [v EXCEPT !.ok = FALSE]
          ELSE ValidateInstr(bytes, nvars, code[lo], v))
    ELSE ValidateRange(bytes, nvars, code, (lo + hi) \div 2 + 1, hi,
            ValidateRange(bytes, nvars, code, lo, (lo + hi) \div 2, v))
\* the body is valid from pc on: every instruction is, and the last end
\* closes the function's frame
ValidEnd(v) == v.ok /\ v.ctrls = <<>>
ValidateFrom(bytes, nvars, code, pc, v) ==
    ValidEnd(ValidateRange(bytes, nvars, code, pc, Len(code), v))

ValidBody(bytes, idx) ==
    LET body == FuncBody(bytes, idx)
        type == FuncType(bytes, idx)
    IN  \/ IsHelperBody(body)
        \/ ValidateFrom(bytes, Len(type.params) + body.nlocals, body.code, 1,
                [vals |-> <<>>, ctrls |-> <<Frame("func", type.results, 0)>>,
                 ok |-> TRUE])

\* new WebAssembly.Module(bytes): whether the bytes are a valid module
ValidModule(bytes) ==
    /\ bytes # <<>>
    /\ ModCode(bytes).count = Len(ModFuncTypes(bytes))
    /\ ModMain(bytes) < NumFuncs(bytes)
    /\ \A idx \in NumImports(bytes)..(NumFuncs(bytes) - 1) : ValidBody(bytes, idx)

\* ------------------------------------------------------- the host: execution
\* The position of the end (or, with wantElse, of the else if there is one)
\* that closes the block, loop or if opened just before position pc.
RECURSIVE ScanClose(_, _, _, _)
ScanClose(code, pc, depth, wantElse) ==
    LET o == code[pc].op IN
    IF o \in {"block", "loop", "if"} THEN ScanClose(code, pc + 1, depth + 1, wantElse)
    ELSE IF o = "end"
    THEN (IF depth = 0 THEN pc ELSE ScanClose(code, pc + 1, depth - 1, wantElse))
    ELSE IF o = "else" /\ depth = 0 /\ wantElse THEN pc
    ELSE ScanClose(code, pc + 1, depth, wantElse)
MatchEnd(code, pc) == ScanClose(code, pc + 1, 0, FALSE)
MatchElse(code, pc) == ScanClose(code, pc + 1, 0, TRUE)

Zeros(n) == [k \in 1..n |-> 0]
NewFrame(bytes, idx, args) ==
    [idx |-> idx, pc |-> 1,
     locals |-> args \o Zeros(FuncBody(bytes, idx).nlocals),
     stack |-> <<>>, labels |-> <<>>]
Top(stack, n) == SubSeq(stack, Len(stack) - n + 1, Len(stack))
Drop(stack, n) == SubSeq(stack, 1, Len(stack) - n)
Peek(stack) == stack[Len(stack)]
B2I(b) == IF b THEN 1 ELSE 0

\* What a runtime helper does to the memory, and the values it returns.
HelperApply(name, h0, args) ==
    LET h == [h0 EXCEPT !.events = <<>>]
        one(r) == [h |-> r.h, results |-> <<r.result>>]
    IN  CASE name = "box_number" -> one(boxNumberFunctionBody(h, args[1]))
        [] name = "unbox_number" -> one(unboxNumberFunctionBody(h, args[1]))
        [] name = "box_bool" -> one(boxBooleanFunctionBody(h, args[1]))
        [] name = "box_string" -> one(boxStringFunctionBody(h, args[1], args[2]))
        [] name = "box_nil" -> one(boxNilFunctionBody(h))
        [] name = "is_truthy" -> one(isTruthyFunctionBody(h, args[1]))
        [] name = "concat" -> one(concatFunctionBody(h, args[1], args[2]))
        [] name = "ensure_space" ->
            [h |-> ensureSpaceFunctionBody(h, args[1]), results |-> <<>>]
        [] name = "memory_copy" ->
            [h |-> memoryCopyFunctionBody(h, args[1], args[2], args[3]),
             results |-> <<>>]

\* env.print(boxPtr): what the host appends to its output for the box, as
\* [t, v]: a number <<n>>, the bytes of a string, a boolean <<0>> or <<1>>;
\* nothing for nil; the host throws on any other tag.
RECURSIVE ReadBytes(_, _, _)
ReadBytes(h, off, len) ==
    IF len <= 0 THEN <<>> ELSE <<load(h, off)>> \o ReadBytes(h, off + 1, len - 1)
HostPrint(h, boxPtr) ==
    LET tag == load(h, boxPtr) IN
    CASE tag = TagNil -> [throws |-> FALSE, out |-> <<>>]
    [] tag = TagNumber ->
        [throws |-> FALSE, out |-> <<[t |-> "number", v |-> <<load(h, boxPtr + 8)>>]>>]
    [] tag = TagString ->
        [throws |-> FALSE,
         out |-> <<[t |-> "string",
                    v |-> ReadBytes(h, load(h, boxPtr + 4), load(h, boxPtr + 8))]>>]
    [] tag = TagBool ->
        [throws |-> FALSE,
         out |-> <<[t |-> "bool", v |-> <<B2I(load(h, boxPtr + 4) # 0)>>]>>]
    [] OTHER -> [throws |-> TRUE, out |-> <<>>]
Newline == [t |-> "newline", v |-> <<>>]

F64Op(o, x, y) ==
    CASE o = "f64.add" -> x + y
    [] o = "f64.sub" -> x - y
    [] o = "f64.mul" -> x * y
    [] o = "f64.eq" -> B2I(x = y)
    [] o = "f64.ne" -> B2I(x # y)
    [] o = "f64.lt" -> B2I(x < y)
    [] o = "f64.gt" -> B2I(x > y)
    [] o = "f64.le" -> B2I(x <= y)
    [] o = "f64.ge" -> B2I(x >= y)

\* A branch to label n of the frame: a loop is re-entered at its start, a
\* block or if is left at its end.
Branch(f, n) ==
    LET k == Len(f.labels) - n
        target == f.labels[k]
    IN  [f EXCEPT !.pc = target.cont,
                  !.stack = SubSeq(@, 1, target.height),
                  !.labels = SubSeq(@, 1, IF target.op = "loop" THEN k ELSE k - 1)]

\* =================================================================== lexer
\* src/src/lexer.ts. A source is the sequence of its characters, each a
\* one-character string; the character past the end of the source reads as
\* the end-of-file character, which no source drawn here contains.
NUL == "\\0"
DigitChars == {"0", "1", "2", "3", "4", "5", "6", "7", "8", "9"}
AlphaChars ==
    {"a", "b", "c", "d", "e", "f", "g", "h", "i", "j", "k", "l", "m", "n",
     "o", "p", "q", "r", "s", "t", "u", "v", "w", "x", "y", "z", "A", "B",
     "C", "D", "E", "F", "G", "H", "I", "J", "K", "L", "M", "N", "O", "P",
     "Q", "R", "S", "T", "U", "V", "W", "X", "Y", "Z", "_"}
isAlpha(char) == char \in AlphaChars
isDigit(char) == char \in DigitChars
isAlphaNumeric(char) == isAlpha(char) \/ isDigit(char)
isNewline(char) == char = "\n"
isEndOfFile(char) == char = NUL
peek(src, curr) == IF curr < Len(src) THEN src[curr + 1] ELSE NUL
lookahead(src, curr, n) ==
    IF curr + n < Len(src) THEN src[curr + n + 1] ELSE NUL
match(src, curr, char) == peek(src, curr) = char
advance(src, curr, line, column) ==
    [line |-> IF isNewline(peek(src, curr)) THEN line + 1 ELSE line,
     column |-> IF isNewline(peek(src, curr)) THEN 1 ELSE column + 1,
     current |-> curr + 1]
\* pos = advance(src, pos.current, pos.line, pos.column)
Advanced(src, pos) == advance(src, pos.current, pos.line, pos.column)

\* keywords[value] || "IDENTIFIER"
keywords(value) ==
    CASE value = <<"i", "f">> -> "IF"
      [] value = <<"t", "h", "e", "n">> -> "THEN"
      [] value = <<"e", "l", "s", "e">> -> "ELSE"
      [] value = <<"t", "r", "u", "e">> -> "TRUE"
      [] value = <<"f", "a", "l", "s", "e">> -> "FALSE"
      [] value = <<"a", "n", "d">> -> "AND"
      [] value = <<"o", "r">> -> "OR"
      [] value = <<"w", "h", "i", "l", "e">> -> "WHILE"
      [] value = <<"d", "o">> -> "DO"
      [] value = <<"f", "o", "r">> -> "FOR"
      [] value = <<"f", "u", "n", "c">> -> "FUNC"
      [] value = <<"e", "n", "d">> -> "END"
      [] value = <<"p", "r", "i", "n", "t">> -> "PRINT"
      [] value = <<"p", "r", "i", "n", "t", "l", "n">> -> "PRINTLN"
      [] value = <<"r", "e", "t">> -> "RET"
      [] value = <<"l", "o", "c", "a", "l">> -> "LOCAL"
      [] OTHER -> "IDENTIFIER"
\* tokenTypes[key]; a key the table lacks reads as undefined
tokenTypes(key) ==
    CASE key = <<"(">> -> "LPAREN"
      [] key = <<")">> -> "RPAREN"
      [] key = <<",">> -> "COMMA"
      [] key = <<".">> -> "DOT"
      [] key = <<"+">> -> "PLUS"
      [] key = <<"-">> -> "MINUS"
      [] key = <<"*">> -> "STAR"
      [] key = <<"/">> -> "SLASH"
      [] key = <<"^">> -> "CARET"
      [] key = <<"%">> -> "MOD"
      [] key = <<"!">> -> "NOT"
      [] key = <<">">> -> "GT"
      [] key = <<"<">> -> "LT"
      [] key = <<">", "=">> -> "GE"
      [] key = <<"<", "=">> -> "LE"
      [] key = <<"!", "=">> -> "NE"
      [] key = <<"=", "=">> -> "EQEQ"
      [] key = <<":", "=">> -> "ASSIGN"
      [] OTHER -> "undefined"

NoTokenError == [message |-> "null", line |-> 0, column |-> 0]
addToken(toks, pos, type, value, start, column) ==
    Append(toks, [type |-> type, value |-> value, line |-> pos.line,
                  column |-> column, start |-> start, end |-> pos.current])
\* addToken({ type: "EOF", value: "" })
addEOF(toks, pos) == addToken(toks, pos, "EOF", <<>>, pos.current, pos.column)
errorReturn(message, line, column) ==
    [message |-> message, line |-> line, column |-> column]
\* an error return that leaves the tokens as they are
FailedBare(toks, pos, message, line, column) ==
    [tokens |-> toks, error |-> errorReturn(message, line, column)]
\* addToken EOF; return { tokens, error }
Failed(toks, pos, message, line, column) ==
    [tokens |-> addEOF(toks, pos), error |-> errorReturn(message, line, column)]

\* the loops that consume a string's contents and a comment: up to the
\* character stop or the end of the source
RECURSIVE ReadUntil(_, _, _, _)
ReadUntil(src, pos, stop, value) ==
    IF isEndOfFile(peek(src, pos.current)) \/ match(src, pos.current, stop)
    THEN [pos |-> pos, value |-> value]
    ELSE ReadUntil(src, Advanced(src, pos), stop,
                   Append(value, peek(src, pos.current)))
\* the loop of the number case; bad when a '.' has no digit after it
RECURSIVE ReadNumber(_, _, _)
ReadNumber(src, pos, value) ==
    IF \/ isEndOfFile(peek(src, pos.current))
       \/ ~(isDigit(peek(src, pos.current)) \/ match(src, pos.current, "."))
    THEN [pos |-> pos, value |-> value, bad |-> FALSE]
    ELSE IF /\ match(src, pos.current, ".")
            /\ ~isDigit(lookahead(src, pos.current, 1))
    THEN [pos |-> pos, value |-> value, bad |-> TRUE]
    ELSE ReadNumber(src, Advanced(src, pos),
                    Append(value, peek(src, pos.current)))
\* the loop of the identifier case
RECURSIVE ReadWord(_, _, _)
ReadWord(src, pos, value) ==
    IF \/ isEndOfFile(peek(src, pos.current))
       \/ ~isAlphaNumeric(peek(src, pos.current))
    THEN [pos |-> pos, value |-> value]
    ELSE ReadWord(src, Advanced(src, pos),
                  Append(value, peek(src, pos.current)))

RECURSIVE Scan(_, _, _)
\* one or two characters consumed and a token of that text added
ScanSymbol(src, pos, toks, type, value, after) ==
    Scan(src, after, addToken(toks, after, type, value, pos.current, pos.column))
ScanString(src, quotePos, toks, r) ==
    IF isEndOfFile(peek(src, r.pos.current))
    THEN Failed(toks, r.pos, "Unterminated string literal at line",
                quotePos.line, quotePos.column)
    ELSE ScanSymbol(src, quotePos, toks, "STRING", r.value,
                    Advanced(src, r.pos))
ScanComment(src, pos, toks, r) ==
    ScanSymbol(src, pos, toks, "COMMENT", r.value, r.pos)
ScanNumber(src, pos, toks, r) ==
    IF r.bad
    THEN Failed(toks, r.pos, "Unexpected character '.' in number",
                r.pos.line, r.pos.column)
    ELSE ScanSymbol(src, pos, toks, "NUMBER", r.value, r.pos)
ScanWord(src, pos, toks, r) ==
    ScanSymbol(src, pos, toks, keywords(r.value), r.value, r.pos)
\* one turn of tokenize's loop, at character ch
ScanChar(src, pos, toks, ch) ==
    CASE ch \in {" ", "\t", "\r", "\n"} -> Scan(src, Advanced(src, pos), toks)
      [] ch \in {"(", ")", ".", ",", "+", "*", "^", "/", "%"} ->
            ScanSymbol(src, pos, toks, tokenTypes(<<ch>>), <<ch>>,
                       Advanced(src, pos))
      [] ch \in {"'", "\""} ->
            ScanString(src, pos, toks,
                       ReadUntil(src, Advanced(src, pos), ch, <<>>))
      [] ch \in {">", "<"} ->
            IF lookahead(src, pos.current, 1) = "="
            THEN ScanSymbol(src, pos, toks, tokenTypes(<<ch, "=">>),
                            <<ch, "=">>, Advanced(src, Advanced(src, pos)))
            ELSE ScanSymbol(src, pos, toks, tokenTypes(<<ch>>), <<ch>>,
                            Advanced(src, pos))
      [] ch \in {"~", ":", "="} ->
            IF ch = "~" /\ lookahead(src, pos.current, 1) # "="
            THEN ScanSymbol(src, pos, toks, tokenTypes(<<ch>>), <<ch>>,
                            Advanced(src, pos))
            ELSE IF lookahead(src, pos.current, 1) # "="
            THEN Failed(toks, pos, "Unexpected character", pos.line, pos.column)
            ELSE ScanSymbol(src, pos, toks, tokenTypes(<<ch, "=">>),
                            <<ch, "=">>, Advanced(src, Advanced(src, pos)))
      [] ch = "-" ->
            IF lookahead(src, pos.current, 1) # "-"
            THEN ScanSymbol(src, pos, toks, "MINUS", <<ch>>, Advanced(src, pos))
            ELSE ScanComment(src, pos, toks, ReadUntil(src, pos, "\n", <<>>))
      [] OTHER ->
            IF isDigit(ch)
            THEN ScanNumber(src, pos, toks, ReadNumber(src, pos, <<>>))
            ELSE IF isAlpha(ch)
            THEN ScanWord(src, pos, toks, ReadWord(src, pos, <<>>))
            ELSE Failed(toks, pos, "Unexpected character", pos.line, pos.column)
Scan(src, pos, toks) ==
    IF isEndOfFile(peek(src, pos.current))
    THEN [tokens |-> addEOF(toks, pos), error |-> NoTokenError]
    ELSE ScanChar(src, pos, toks, peek(src, pos.current))
\* tokenize without the EOF token of its error returns
tokenizeBare(src) ==
    LET r == Scan(src, [line |-> 1, column |-> 1, current |-> 0], <<>>)
    IN  IF r.error = NoTokenError THEN r
        ELSE [r EXCEPT !.tokens = SubSeq(@, 1, Len(@) - 1)]
tokenize(src) == Scan(src, [line |-> 1, column |-> 1, current |-> 0], <<>>)

\* ================================================================== parser
\* src/src/parser.ts. A token is [type, value]; the parser's state is the
\* token list and the cursor current (counted from 0). Every parse function
\* returns the node it built and the cursor after it, or the exception it
\* threw: a ParseError with the statements it carries (error.body.body), or
\* a plain Error. Locations are left out of nodes and errors.
Tok(type, value) == [type |-> type, value |-> value]
NoNode == [type |-> "none"]
Ok(node, cur) == [node |-> node, cur |-> cur, err |-> "none", body |-> <<>>]
\* throw new ParseError(message, makeProgram([], tokens), ...)
ThrowParseError(cur) ==
    [node |-> NoNode, cur |-> cur, err |-> "ParseError", body |-> <<>>]
ThrowError(cur) ==
    [node |-> NoNode, cur |-> cur, err |-> "Error", body |-> <<>>]
isEOF(token) == token.type = "EOF"
peekToken(toks, cur) == toks[cur + 1]
\* the cursor after advance(state): it does not move past EOF
\* an advance that moves the cursor on whatever the token
advancePastEOF(toks, cur) == cur + 1
advanceToken(toks, cur) == IF isEOF(toks[cur + 1]) THEN cur ELSE cur + 1
isNextToken(toks, cur, type) ==
    ~isEOF(toks[cur + 1]) /\ toks[cur + 1].type = type
\* expectNext after the step that returned r; the node of r is kept
expectNext(toks, r, type) ==
    IF r.err # "none" THEN r
    ELSE IF isNextToken(toks, r.cur, type) THEN [r EXCEPT !.cur = @ + 1]
    ELSE ThrowParseError(r.cur)
\* the parts of a statement gathered so far, with the next part r
Then(parts, r) ==
    IF r.err # "none" THEN r ELSE [r EXCEPT !.node = Append(parts, r.node)]
First(r) == IF r.err # "none" THEN r ELSE [r EXCEPT !.node = <<r.node>>]
\* the node built from the parts, once all of them are there
Built(r, node) == IF r.err # "none" THEN r ELSE [r EXCEPT !.node = node]

symbolForTokenType(type) ==
    CASE type = "PLUS" -> "+"
      [] type = "MINUS" -> "-"
      [] type = "STAR" -> "*"
      [] type = "SLASH" -> "/"
      [] type = "MOD" -> "%"
      [] type = "CARET" -> "^"
      [] type = "EQEQ" -> "=="
      [] type = "NE" -> "~="
      [] type = "GT" -> ">"
      [] type = "GE" -> ">="
      [] type = "LT" -> "<"
      [] type = "LE" -> "<="
      [] type = "AND" -> "and"
      [] type = "OR" -> "or"
      [] type = "NOT" -> "~"
      [] OTHER -> "undefined"
BINARY_OPERATORS ==
    {"+", "-", "*", "/", "%", "^", "==", "~=", ">", ">=", "<", "<=", "and", "or"}
UNARY_OPERATORS == {"+", "-", "~"}
\* left = { type: "BinaryExpression", left, operator: getBinarySymbol(op), right }
BinaryJoin(type, left, right) ==
    IF right.err # "none" THEN right
    ELSE IF symbolForTokenType(type) \notin BINARY_OPERATORS
    THEN ThrowError(right.cur)
    ELSE Ok(Binary(symbolForTokenType(type), left.node, right.node), right.cur)
UnaryJoin(type, argument) ==
    IF argument.err # "none" THEN argument
    ELSE IF symbolForTokenType(type) \notin UNARY_OPERATORS
    THEN ThrowError(argument.cur)
    ELSE Ok(Unary(symbolForTokenType(type), argument.node), argument.cur)
\* Number.parseFloat of a NUMBER token's text: the digits before any '.'
RECURSIVE parseFloat(_, _)
parseFloat(chars, acc) ==
    IF chars = <<>> \/ ~isDigit(Head(chars)) THEN acc
    ELSE parseFloat(Tail(chars),
            10 * acc + (CHOOSE d \in 0..9 : ToString(d) = Head(chars)))

\* the levels with the operators of addition and multiplication swapped
LevelTokensSwapped(level) ==
    CASE level = "or" -> {"OR"}
      [] level = "and" -> {"AND"}
      [] level = "equality" -> {"EQEQ", "NE"}
      [] level = "comparison" -> {"GT", "LT", "GE", "LE"}
      [] level = "addition" -> {"STAR", "SLASH"}
      [] level = "multiplication" -> {"PLUS", "MINUS"}
      [] level = "exponent" -> {"CARET"}
\* the token types a level of the expression grammar loops on
LevelTokens(level) ==
    CASE level = "or" -> {"OR"}
      [] level = "and" -> {"AND"}
      [] level = "equality" -> {"EQEQ", "NE"}
      [] level = "comparison" -> {"GT", "LT", "GE", "LE"}
      [] level = "addition" -> {"PLUS", "MINUS"}
      [] level = "multiplication" -> {"STAR", "SLASH"}
      [] level = "exponent" -> {"CARET"}

RECURSIVE parseStatements(_, _, _), parseStatement(_, _), parseOrLogical(_, _),
          parseAndLogical(_, _), parseEquality(_, _), parseComparison(_, _),
          parseAddition(_, _), parseMultiplication(_, _), parseModulo(_, _),
          parseUnary(_, _), parseExponent(_, _), parsePrimary(_, _),
          LeftLoop(_, _, _), parseArgs(_, _, _), parseParams(_, _, _),
          parseElifs(_, _, _), ModuloLoop(_, _)
parseExpression(toks, cur) == parseOrLogical(toks, cur)
\* the right operand of a level: the next level's function
RightOperand(level, toks, cur) ==
    CASE level = "or" -> parseAndLogical(toks, cur)
      [] level = "and" -> parseEquality(toks, cur)
      [] level = "equality" -> parseComparison(toks, cur)
      [] level = "comparison" -> parseAddition(toks, cur)
      [] level = "addition" -> parseMultiplication(toks, cur)
      [] level = "multiplication" -> parseModulo(toks, cur)
      [] level = "exponent" -> parsePrimary(toks, cur)
\* while (match(state, ...)) { right = next level; left = Binary(left, op, right) }
LeftLoop(level, toks, left) ==
    IF left.err # "none" THEN left
    ELSE IF toks[left.cur + 1].type \notin LevelTokens(level) THEN left
    ELSE LeftLoop(level, toks,
            BinaryJoin(toks[left.cur + 1].type, left,
                       RightOperand(level, toks, left.cur + 1)))
parseOrLogical(toks, cur) == LeftLoop("or", toks, parseAndLogical(toks, cur))
parseAndLogical(toks, cur) == LeftLoop("and", toks, parseEquality(toks, cur))
parseEquality(toks, cur) ==
    LeftLoop("equality", toks, parseComparison(toks, cur))
parseComparison(toks, cur) ==
    LeftLoop("comparison", toks, parseAddition(toks, cur))
parseAddition(toks, cur) ==
    LeftLoop("addition", toks, parseMultiplication(toks, cur))
parseMultiplication(toks, cur) ==
    LeftLoop("multiplication", toks, parseModulo(toks, cur))
\* the modulo level as a loop, like the levels around it
ModuloLoop(toks, left) ==
    IF left.err # "none" THEN left
    ELSE IF toks[left.cur + 1].type # "MOD" THEN left
    ELSE ModuloLoop(toks, BinaryJoin("MOD", left, parseUnary(toks, left.cur + 1)))
\* if (match(state, "MOD")): one right operand, no loop
ModuloRest(toks, left) ==
    IF left.err # "none" THEN left
    ELSE IF toks[left.cur + 1].type # "MOD" THEN left
    ELSE BinaryJoin("MOD", left, parseUnary(toks, left.cur + 1))
parseModulo(toks, cur) == ModuloRest(toks, parseUnary(toks, cur))
parseUnary(toks, cur) ==
    IF toks[cur + 1].type \in {"PLUS", "MINUS", "NOT"}
    THEN UnaryJoin(toks[cur + 1].type, parseUnary(toks, cur + 1))
    ELSE parseExponent(toks, cur)
parseExponent(toks, cur) == LeftLoop("exponent", toks, parsePrimary(toks, cur))
\* do { args.push(parseExpression(state)) } while (match(state, "COMMA"))
ArgsMore(toks, r) ==
    IF r.err = "none" /\ isNextToken(toks, r.cur, "COMMA")
    THEN parseArgs(toks, r.cur + 1, r.node)
    ELSE r
parseArgs(toks, cur, args) == ArgsMore(toks, Then(args, parseExpression(toks, cur)))
CallEnd(toks, name, r) ==
    Built(expectNext(toks, r, "RPAREN"), FunctionCall(name, r.node))
GroupEnd(toks, r) == Built(expectNext(toks, r, "RPAREN"), Group(r.node))
parsePrimary(toks, cur) ==
    LET token == toks[cur + 1] IN
    CASE token.type = "NUMBER" -> Ok(Num(parseFloat(token.value, 0)), cur + 1)
      [] token.type \in {"TRUE", "FALSE"} ->
            Ok(Bool(token.value = <<"t", "r", "u", "e">>), cur + 1)
      [] token.type = "STRING" -> Ok(Str(token.value), cur + 1)
      [] token.type = "LPAREN" -> GroupEnd(toks, parseExpression(toks, cur + 1))
      [] token.type = "IDENTIFIER" ->
            IF ~isNextToken(toks, cur + 1, "LPAREN")
            THEN Ok(Ident(token.value), cur + 1)
            ELSE IF isNextToken(toks, cur + 2, "RPAREN")
            THEN CallEnd(toks, token.value, Ok(<<>>, cur + 2))
            ELSE CallEnd(toks, token.value, parseArgs(toks, cur + 2, <<>>))
      [] token.type = "EOF" -> ThrowParseError(advanceToken(toks, cur))
      [] OTHER -> ThrowParseError(cur + 1)

\* ------------------------------------------------------ parser: statements
\* A statement's parts are gathered in order in the node of the result; a
\* step after a failed step is skipped.
\* the statements of a block parsed from the cursor of r on
ThenBlock(toks, r) ==
    IF r.err # "none" THEN r ELSE Then(r.node, parseStatements(toks, r.cur, <<>>))
ThenExpression(toks, r) ==
    IF r.err # "none" THEN r ELSE Then(r.node, parseExpression(toks, r.cur))
\* while (isNextToken(state, "ELIF")) { condition, THEN, body }
ElifEnd(toks, elifs, r) ==
    IF r.err # "none" THEN r
    ELSE parseElifs(toks, r.cur,
            Append(elifs, [condition |-> r.node[1], body |-> r.node[2]]))
parseElifs(toks, cur, elifs) ==
    IF ~isNextToken(toks, cur, "ELIF") THEN Ok(elifs, cur)
    ELSE ElifEnd(toks, elifs,
            ThenBlock(toks,
                expectNext(toks, First(parseExpression(toks, cur + 1)), "THEN")))
ThenElifs(toks, r) ==
    IF r.err # "none" THEN r ELSE Then(r.node, parseElifs(toks, r.cur, <<>>))
\* if (isNextToken(state, "ELSE")) elseBranch = parseStatements(state)
ThenElse(toks, r) ==
    IF r.err # "none" THEN r
    ELSE IF isNextToken(toks, r.cur, "ELSE")
    THEN Then(r.node, parseStatements(toks, r.cur + 1, <<>>))
    ELSE Then(r.node, Ok(<<>>, r.cur))
\* const increment = match(state, "COMMA") ? parseExpression(state) : undefined
ThenIncrement(toks, r) ==
    IF r.err # "none" THEN r
    ELSE IF isNextToken(toks, r.cur, "COMMA")
    THEN Then(Append(r.node, TRUE), parseExpression(toks, r.cur + 1))
    ELSE Then(Append(r.node, FALSE), Ok(Num(1), r.cur))
\* do { identifier } while (match(state, "COMMA"))
parseParams(toks, cur, params) ==
    IF ~isNextToken(toks, cur, "IDENTIFIER") THEN ThrowParseError(cur)
    ELSE IF isNextToken(toks, cur + 1, "COMMA")
    THEN parseParams(toks, cur + 2, Append(params, toks[cur + 1].value))
    ELSE Ok(Append(params, toks[cur + 1].value), cur + 1)
\* func name ( params )
FunctionHead(toks, r) ==
    IF r.err # "none" THEN r
    ELSE IF isNextToken(toks, r.cur, "RPAREN")
    THEN Then(<<toks[r.cur - 1].value>>, Ok(<<>>, r.cur + 1))
    ELSE expectNext(toks,
            Then(<<toks[r.cur - 1].value>>, parseParams(toks, r.cur, <<>>)),
            "RPAREN")
\* local / for: the identifier, then ASSIGN
IdentifierAssign(toks, cur) ==
    IF ~isNextToken(toks, cur, "IDENTIFIER") THEN ThrowParseError(cur)
    ELSE expectNext(toks, Ok(<<toks[cur + 1].value>>, cur + 1), "ASSIGN")
IfBuilt(r) ==
    Built(r, If(r.node[1], r.node[2], r.node[3], r.node[4]))
WhileBuilt(r) == Built(r, While(r.node[1], r.node[2]))
ForBuilt(r) ==
    Built(r, For(r.node[1], r.node[2], r.node[3], r.node[4], r.node[5], r.node[6]))
FunctionBuilt(r) == Built(r, FunctionDecl(r.node[1], r.node[2], r.node[3]))
LocalBuilt(r) == Built(r, LocalAssign(r.node[1], r.node[2]))
\* default: an expression, made an assignment if it is an identifier
\* followed by ASSIGN
AssignBuilt(identifier, right) == Built(right, Assign(identifier, right.node))
ExpressionOrAssign(toks, left) ==
    IF left.err # "none" THEN left
    ELSE IF left.node.type = "Identifier" /\ isNextToken(toks, left.cur, "ASSIGN")
    THEN AssignBuilt(left.node.name, parseExpression(toks, left.cur + 1))
    ELSE Built(left, ExprStmt(left.node))
PrintBuilt(r) == Built(r, PrintStmt(r.node))
PrintlnBuilt(r) == Built(r, PrintlnStmt(r.node))
ReturnBuilt(r) == Built(r, Return(r.node))
parseStatement(toks, cur) ==
    LET type == toks[cur + 1].type IN
    CASE type = "PRINT" -> PrintBuilt(parseExpression(toks, cur + 1))
      [] type = "PRINTLN" -> PrintlnBuilt(parseExpression(toks, cur + 1))
      [] type = "IF" ->
            IfBuilt(expectNext(toks,
                ThenElse(toks, ThenElifs(toks, ThenBlock(toks,
                    expectNext(toks, First(parseExpression(toks, cur + 1)),
                               "THEN")))),
                "END"))
      [] type = "WHILE" ->
            WhileBuilt(expectNext(toks,
                ThenBlock(toks,
                    expectNext(toks, First(parseExpression(toks, cur + 1)), "DO")),
                "END"))
      [] type = "FOR" ->
            ForBuilt(expectNext(toks,
                ThenBlock(toks, expectNext(toks,
                    ThenIncrement(toks, ThenExpression(toks,
                        expectNext(toks,
                            ThenExpression(toks, IdentifierAssign(toks, cur + 1)),
                            "COMMA"))),
                    "DO")),
                "END"))
      [] type = "FUNC" ->
            FunctionBuilt(expectNext(toks,
                ThenBlock(toks, FunctionHead(toks,
                    expectNext(toks,
                        expectNext(toks, Ok(<<>>, cur + 1), "IDENTIFIER"),
                        "LPAREN"))),
                "END"))
      [] type = "RET" -> ReturnBuilt(parseExpression(toks, cur + 1))
      [] type = "LOCAL" ->
            LocalBuilt(ThenExpression(toks, IdentifierAssign(toks, cur + 1)))
      [] type = "EOF" -> ThrowParseError(cur)
      [] OTHER -> ExpressionOrAssign(toks, parseExpression(toks, cur))
\* the catch left out: the error goes up as it was thrown
RethrownAsIs(err, body) == err
\* catch (err): a ParseError is thrown again with the statements of this
\* block so far as its body
Rethrown(err, body) ==
    IF err.err = "ParseError" THEN [err EXCEPT !.body = body] ELSE err
StatementDone(toks, body, r) ==
    IF r.err # "none" THEN Rethrown(r, body)
    ELSE parseStatements(toks, r.cur, Append(body, r.node))
parseStatements(toks, cur, body) ==
    IF \/ isEOF(toks[cur + 1])
       \/ toks[cur + 1].type \in {"ELSE", "ELIF", "END"}
    THEN Ok(body, cur)
    ELSE IF toks[cur + 1].type = "COMMENT"
    THEN parseStatements(toks, cur + 1, body)
    ELSE StatementDone(toks, body, parseStatement(toks, cur))
NoParseError == [name |-> "null", body |-> Program(<<>>)]
\* parse's return for what parseStatements returned or threw
Parsed(r) ==
    CASE r.err = "none" ->
            [ast |-> Program(r.node), error |-> NoParseError, thrown |-> "none"]
      [] r.err = "ParseError" ->
            [ast |-> Program(r.body),
             error |-> [name |-> "ParseError", body |-> Program(r.body)],
             thrown |-> "none"]
      [] OTHER ->
            [ast |-> Program(<<>>), error |-> NoParseError, thrown |-> "Error"]
parse(toks) == Parsed(parseStatements(toks, 0, <<>>))

\* ----------------------------------------------------------------- the run
VARIABLES
    ast,        \* the program handed to compile
    phase,      \* "parsed", "compiled", "running", "done", "trapped", "rejected"
    result,     \* what compile returned: bytes, error (and what was thrown)
    state,      \* the module-level compiler state left by the last compile
    frames,     \* the call stack of the instance, innermost last
    heap,       \* the instance's memory and heap pointer
    output,     \* the output array of the host
    trace,      \* the instructions executed so far, as <<function index, pc>>
    last,       \* the last helper call: name, arguments, memory before and after
    tally,      \* the helper allocations so far: their number, the bytes
                \* concatenated, the boxes returned
    source,     \* the source text handed to tokenize, one character each
    lexed,      \* what tokenize returned: tokens and error
    tokens,     \* the tokens handed to parse
    parsed,     \* what parse returned: ast and error (and what was thrown)
    table,      \* a string table of its own
    asked       \* the getOffset calls made on it: string asked, offset returned
\* the front end's variables, which a run of compiled code leaves alone
front == <<source, lexed, tokens, parsed, table, asked>>
vars == <<ast, phase, result, state, frames, heap, output, trace, last, tally,
          source, lexed, tokens, parsed, table, asked>>
\* the front end before anything was handed to it
FrontIdle ==
    /\ source = <<>>
    /\ lexed = <<>>
    /\ tokens = <<>>
    /\ parsed = <<>>
    /\ table = NewStringTable
    /\ asked = <<>>

NoResult == [bytes |-> <<>>, error |-> [name |-> "null", message |-> ""],
             strings |-> <<>>, thrown |-> NoErr]
NoCall == [name |-> "", args |-> <<>>, before |-> NewHeap(<<>>, 1),
           after |-> NewHeap(<<>>, 1), results |-> <<>>]

\* The length of the string form of a box, as concat reads it
StringLength(h, boxPtr) ==
    LET str == to_string(h, boxPtr) IN load(str.h, str.result + 8)
Allocators == {"box_number", "box_bool", "box_string", "box_nil", "concat"}
\* The tally after the call of helper name that took the memory from h to r.h:
\* one more allocation for each box made, concat's bytes added.
Tally(t, name, args, h, r) ==
    IF r.h.trap \/ name \notin Allocators THEN t
    ELSE [initial |-> t.initial,
          allocations |-> t.allocations + 1,
          concatenated |-> t.concatenated +
                (IF name = "concat"
                 THEN StringLength(h, args[1]) + StringLength(h, args[2]) ELSE 0),
          boxes |-> t.boxes \o r.results]
NoTally == [initial |-> 0, allocations |-> 0, concatenated |-> 0, boxes |-> <<>>]

\* compile(ast)
Returns(r) ==
    /\ result' = [bytes |-> r.bytes, error |-> r.error,
                  strings |-> r.strings, thrown |-> r.thrown]
    /\ state' = r.state
Compile ==
    /\ phase = "parsed"
    /\ Returns(compile(ast, state))
    /\ phase' = "compiled"
    /\ UNCHANGED <<ast, frames, heap, output, trace, last, tally>>
    /\ UNCHANGED front

\* run(bytes) up to the call of main: the module is validated and
\* instantiated; invalid bytes make the constructor throw.
Instantiate ==
    /\ phase = "compiled"
    /\ IF ValidModule(result.bytes)
       THEN /\ phase' = "running"
            /\ heap' = [NewHeap(ModData(result.bytes), 1)
                            EXCEPT !.heap_ptr = ModHeapInit(result.bytes)]
            /\ frames' = <<NewFrame(result.bytes, ModMain(result.bytes), <<>>)>>
            /\ tally' = [NoTally EXCEPT !.initial = ModHeapInit(result.bytes)]
       ELSE /\ phase' = "rejected"
            /\ UNCHANGED <<heap, frames, tally>>
    /\ output' = <<>>
    /\ UNCHANGED <<ast, result, state, trace, last>>
    /\ UNCHANGED front

\* The frame after its instruction ins, for the instructions that touch
\* nothing but the frame.
Local(f, code, ins) ==
    LET next == [f EXCEPT !.pc = @ + 1]
        o == ins.op
    IN  CASE o \in {"f64.const", "i32.const"} -> [next EXCEPT !.stack = Append(@, ins.a)]
        [] o = "local.get" -> [next EXCEPT !.stack = Append(@, f.locals[ins.a + 1])]
        [] o = "local.set" ->
            [next EXCEPT !.stack = Drop(@, 1), !.locals[ins.a + 1] = Peek(f.stack)]
        [] o \in F64BinOps \cup F64RelOps ->
            [next EXCEPT !.stack =
                Append(Drop(@, 2), F64Op(o, f.stack[Len(f.stack) - 1], Peek(f.stack)))]
        [] o = "f64.neg" -> [next EXCEPT !.stack = Append(Drop(@, 1), 0 - Peek(f.stack))]
        [] o = "i32.eqz" -> [next EXCEPT !.stack = Append(Drop(@, 1), B2I(Peek(f.stack) = 0))]
        [] o = "block" ->
            [next EXCEPT !.labels =
                Append(@, [op |-> o, cont |-> MatchEnd(code, f.pc) + 1,
                           height |-> Len(f.stack)])]
        [] o = "loop" ->
            [next EXCEPT !.labels =
                Append(@, [op |-> o, cont |-> f.pc + 1, height |-> Len(f.stack)])]
        [] o = "if" ->
            LET else == MatchElse(code, f.pc)
                label == [op |-> o, cont |-> MatchEnd(code, f.pc) + 1,
                          height |-> Len(f.stack) - 1]
            IN  IF Peek(f.stack) # 0
                THEN [next EXCEPT !.stack = Drop(@, 1), !.labels = Append(@, label)]
                ELSE IF code[else].op = "else"
                THEN [f EXCEPT !.pc = else + 1, !.stack = Drop(@, 1),
                               !.labels = Append(@, label)]
                ELSE [f EXCEPT !.pc = else + 1, !.stack = Drop(@, 1)]
        [] o = "else" ->
            [f EXCEPT !.pc = Peek(f.labels).cont, !.labels = Drop(@, 1)]
        [] o = "end" -> [next EXCEPT !.labels = Drop(@, 1)]
        [] o = "br" -> Branch(f, ins.a)
        [] o = "br_if" ->
            IF Peek(f.stack) # 0 THEN Branch([f EXCEPT !.stack = Drop(@, 1)], ins.a)
            ELSE [next EXCEPT !.stack = Drop(@, 1)]

\* base ** exp of the host's math_pow, for a whole exponent >= 0
RECURSIVE Pow(_, _)
Pow(base, exp) == IF exp <= 0 THEN 1 ELSE base * Pow(base, exp - 1)

\* The call of a runtime helper that took the memory from heap to r.h: a
\* trap ends the run.
Helped(name, args, r) ==
    /\ heap' = r.h
    /\ last' = [name |-> name, args |-> args, before |-> heap,
                after |-> r.h, results |-> r.results]
    /\ tally' = Tally(tally, name, args, heap, r)
    /\ phase' = IF r.h.trap THEN "trapped" ELSE phase

\* One instruction of the innermost frame. A call of an import runs the host
\* function, a call of a runtime helper runs the helper to its end, a call of
\* a compiled function pushes a frame, the last end of a body pops it.
Step ==
    /\ phase = "running"
    /\ Len(trace) < MaxSteps
    /\ LET bytes == result.bytes
           f == Peek(frames)
           rest == Drop(frames, 1)
           code == FuncBody(bytes, f.idx).code
           ins == code[f.pc]
           type == FuncType(bytes, ins.a)
           args == Top(f.stack, Len(type.params))
           g == [f EXCEPT !.pc = @ + 1, !.stack = Drop(@, Len(type.params))]
       IN  /\ trace' = Append(trace, <<f.idx, f.pc>>)
           /\ IF ins.op = "call" /\ ins.a < NumImports(bytes)
              THEN LET name == ModImports(bytes)[ins.a + 1].name IN
                   IF name \in {"print", "println"}
                   THEN LET p == HostPrint(heap, args[1]) IN
                        /\ phase' = IF p.throws THEN "trapped" ELSE phase
                        /\ output' = IF p.throws THEN output
                                     ELSE output \o p.out
                                        \o (IF name = "println" THEN <<Newline>>
                                            ELSE <<>>)
                        /\ frames' = IF p.throws THEN frames ELSE Append(rest, g)
                        /\ UNCHANGED <<heap, last, tally>>
                   ELSE LET r == IF name = "to_string" THEN to_string(heap, args[1])
                                 ELSE [h |-> heap, result |-> Pow(args[1], args[2])]
                        IN  /\ heap' = r.h
                            /\ frames' = Append(rest, [g EXCEPT !.stack =
                                                        Append(@, r.result)])
                            /\ UNCHANGED <<phase, output, last, tally>>
              ELSE IF ins.op = "call" /\ IsHelperBody(FuncBody(bytes, ins.a))
              THEN /\ Helped(FuncBody(bytes, ins.a).code[1].op, args,
                          HelperApply(FuncBody(bytes, ins.a).code[1].op, heap, args))
                   /\ frames' = IF heap'.trap THEN frames
                                ELSE Append(rest, [g EXCEPT !.stack =
                                                    @ \o last'.results])
                   /\ UNCHANGED output
              ELSE IF ins.op = "call"
              THEN /\ frames' = Append(Append(rest, g), NewFrame(bytes, ins.a, args))
                   /\ UNCHANGED <<phase, heap, output, last, tally>>
              ELSE IF ins.op = "end" /\ f.labels = <<>>
              THEN LET results == Top(f.stack, Len(FuncType(bytes, f.idx).results)) IN
                   /\ frames' = IF rest = <<>> THEN <<>>
                                ELSE Append(Drop(rest, 1),
                                        [Peek(rest) EXCEPT !.stack = @ \o results])
                   /\ phase' = IF rest = <<>> THEN "done" ELSE phase
                   /\ UNCHANGED <<heap, output, last, tally>>
              ELSE /\ frames' = Append(rest, Local(f, code, ins))
                   /\ UNCHANGED <<phase, heap, output, last, tally>>
    /\ UNCHANGED <<ast, result, state>>
    /\ UNCHANGED front

\* what run returns once it has returned
RunResult ==
    IF phase = "trapped" THEN <<[t |-> "RuntimeError", v |-> <<>>]>> ELSE output

\* ------------------------------------------------------------ the programs
NumLits == {Num(v) : v \in 0..MaxNum}
\* literals of every kind, falsy and truthy
Atoms == {Num(0), Num(MaxNum), Bool(TRUE), Bool(FALSE), Str(<<>>), Str(<<104, 105>>)}
FewAtoms == {Num(0), Num(MaxNum), Bool(FALSE), Str(<<104>>)}
LogicOps == {"and", "or"}

\* local x twice in one scope, in nested scopes, against a parameter; and a
\* read of an undeclared name
DeclPrograms ==
    {<<LocalAssign("x", a), LocalAssign("x", b)>> : a \in NumLits, b \in NumLits}
    \cup {<<LocalAssign("x", a),
            If(Bool(TRUE), <<LocalAssign("x", b), PrintStmt(Ident("x"))>>, <<>>, <<>>),
            PrintStmt(Ident("x"))>> : a \in NumLits, b \in NumLits}
    \cup {<<FunctionDecl("f", <<"n">>, <<LocalAssign("n", a)>>)>> : a \in NumLits}
    \cup {<<LocalAssign("x", a), PrintStmt(Ident("y"))>> : a \in NumLits}

\* i := a  func foo(n) i := b  print i  print n end  foo(c)  print i
ScopeProgram(a, b, c) ==
    <<Assign("i", a),
      FunctionDecl("foo", <<"n">>,
        <<Assign("i", b), PrintStmt(Ident("i")), PrintStmt(Ident("n"))>>),
      ExprStmt(FunctionCall("foo", <<c>>)),
      PrintStmt(Ident("i"))>>
\* x := a  func f() print x end  f()
OuterReadProgram(a) ==
    <<Assign("x", a),
      FunctionDecl("f", <<>>, <<PrintStmt(Ident("x"))>>),
      ExprStmt(FunctionCall("f", <<>>))>>
ScopePrograms ==
    {ScopeProgram(a, b, c) : a \in NumLits, b \in NumLits, c \in NumLits}
    \cup {OuterReadProgram(a) : a \in NumLits}

\* i := a  for i := s, e do print i end  print i
ForProgram(a, s, e) ==
    <<Assign("i", a),
      For("i", s, e, FALSE, Num(1), <<PrintStmt(Ident("i"))>>),
      PrintStmt(Ident("i"))>>
ForPrograms == {ForProgram(a, s, e) : a \in NumLits, s \in NumLits, e \in NumLits}

\* print (a op b), print ((a op b) op c), print (a op (b op c))
LogicExprs ==
    {Binary(o, a, b) : o \in LogicOps, a \in Atoms, b \in Atoms}
    \cup {Binary(o2, Binary(o1, a, b), c) :
            o1 \in LogicOps, o2 \in LogicOps,
            a \in FewAtoms, b \in FewAtoms, c \in FewAtoms}
    \cup {Binary(o1, a, Binary(o2, b, c)) :
            o1 \in LogicOps, o2 \in LogicOps,
            a \in FewAtoms, b \in FewAtoms, c \in FewAtoms}
LogicPrograms == {<<PrintStmt(e)>> : e \in LogicExprs}

\* calls in a value position, of a function without ret, with ret, and with
\* ret on one path only
\* func f() print a end  x := f()  println x
VoidCallProgram(a) ==
    <<FunctionDecl("f", <<>>, <<PrintStmt(a)>>),
      Assign("x", FunctionCall("f", <<>>)),
      PrintlnStmt(Ident("x"))>>
\* func f(n) ret n end  println f(a)
RetCallProgram(a) ==
    <<FunctionDecl("f", <<"n">>, <<Return(Ident("n"))>>),
      PrintlnStmt(FunctionCall("f", <<a>>))>>
\* func nil(flag) if flag then ret 1 end end  println nil(a)
SomeRetCallProgram(a) ==
    <<FunctionDecl("nil", <<"flag">>,
        <<If(Ident("flag"), <<Return(Num(1))>>, <<>>, <<>>)>>),
      PrintlnStmt(FunctionCall("nil", <<a>>))>>
CallPrograms ==
    {VoidCallProgram(a) : a \in Atoms}
    \cup {RetCallProgram(a) : a \in Atoms}
    \cup {SomeRetCallProgram(a) : a \in Atoms}

\* statements of every kind, expression statements among them
StmtPrograms ==
    {<<Assign("x", a), ExprStmt(Ident("x")), PrintlnStmt(Ident("x"))>> : a \in Atoms}
    \cup {<<ExprStmt(a), PrintlnStmt(a)>> : a \in Atoms}
    \cup {<<FunctionDecl("give", <<>>, <<Return(a)>>),
            ExprStmt(FunctionCall("give", <<>>)),
            PrintlnStmt(Str(<<111, 107>>))>> : a \in Atoms}
    \cup {<<FunctionDecl("f", <<"n">>, <<PrintStmt(Ident("n"))>>),
            ExprStmt(FunctionCall("f", <<a>>)),
            PrintlnStmt(a)>> : a \in Atoms}
    \cup {<<LocalAssign("x", Num(0)),
            While(Binary("<", Ident("x"), a),
                  <<Assign("x", Binary("+", Ident("x"), Num(1)))>>),
            If(Binary("==", Ident("x"), a),
               <<PrintlnStmt(Ident("x"))>>, <<>>, <<PrintStmt(b)>>)>> :
            a \in NumLits, b \in Atoms}

Programs ==
    DeclPrograms \cup ScopePrograms \cup ForPrograms \cup LogicPrograms
    \cup CallPrograms \cup StmtPrograms

Init ==
    /\ ast \in {Program(body) : body \in Programs}
    /\ phase = "parsed"
    /\ result = NoResult
    /\ state = ResetState
    /\ frames = <<>>
    /\ heap = NewHeap(<<>>, 1)
    /\ output = <<>>
    /\ trace = <<>>
    /\ last = NoCall
    /\ tally = NoTally
    /\ FrontIdle

Next == Compile \/ Instantiate \/ Step
Spec == Init /\ [][Next]_vars

\* ------------------------------------------------- the helpers on their own
\* The allocator helpers called one after another on the memory of a module
\* with three string literals, from a heap pointer at its initial value or
\* one or two boxes short of the end of the first page (where earlier
\* allocations of a run have brought it).
HeapProgram ==
    <<PrintStmt(Str(<<104, 105>>)), PrintStmt(Str(<<>>)),
      PrintStmt(Str(<<112, 105, 110, 107, 121, 45, 119, 97, 115, 109>>))>>
HeapStarts(init) ==
    LET fit == (PageSize - init) \div BoxSize
    IN  {init + BoxSize * k : k \in {0, fit - 2, fit - 1}}
HeapOf(r) ==
    /\ result = [bytes |-> r.bytes, error |-> r.error,
                 strings |-> r.strings, thrown |-> r.thrown]
    /\ state = r.state
    /\ heap \in {[NewHeap(ModData(r.bytes), 1) EXCEPT !.heap_ptr = p] :
                    p \in HeapStarts(ModHeapInit(r.bytes))}

HeapInit ==
    /\ ast = Program(HeapProgram)
    /\ phase = "helpers"
    /\ HeapOf(compile(ast, ResetState))
    /\ frames = <<>>
    /\ output = <<>>
    /\ trace = <<>>
    /\ last = NoCall
    /\ tally = [NoTally EXCEPT !.initial = heap.heap_ptr]
    /\ FrontIdle

HelperCall(name, args) ==
    /\ phase = "helpers"
    /\ Len(trace) < MaxCalls
    /\ Helped(name, args, HelperApply(name, heap, args))
    /\ trace' = Append(trace, <<func(state.userDefinedFunctions, name), 1>>)
    /\ UNCHANGED <<ast, result, state, frames, output>>
    /\ UNCHANGED front

BoxNumber == \E v \in 0..MaxNum : HelperCall("box_number", <<v>>)
BoxBool == \E v \in {0, 1} : HelperCall("box_bool", <<v>>)
BoxString ==
    \E k \in 1..Len(state.strings.table) :
        HelperCall("box_string", <<state.strings.table[k].offset,
                                   Len(state.strings.table[k].str)>>)
BoxNil == HelperCall("box_nil", <<>>)
Concat ==
    \E l \in 1..Len(tally.boxes), r \in 1..Len(tally.boxes) :
        HelperCall("concat", <<tally.boxes[l], tally.boxes[r]>>)

HeapNext == BoxNumber \/ BoxBool \/ BoxString \/ BoxNil \/ Concat
HeapSpec == HeapInit /\ [][HeapNext]_vars

\* --------------------------------------------- programs for assignments
\* x := a  if true then x := b end  print x
UpdateProgram(a, b) ==
    <<Assign("x", a), If(Bool(TRUE), <<Assign("x", b)>>, <<>>, <<>>),
      PrintStmt(Ident("x"))>>
\* if true then x := a  if true then x := b end  print x end
InnerProgram(a, b) ==
    <<If(Bool(TRUE),
         <<Assign("x", a), If(Bool(TRUE), <<Assign("x", b)>>, <<>>, <<>>),
           PrintStmt(Ident("x"))>>,
         <<>>, <<>>)>>
\* x := a  if true then local x := b  x := c  print x end  print x
ShadowProgram(a, b, c) ==
    <<Assign("x", a),
      If(Bool(TRUE),
         <<LocalAssign("x", b), Assign("x", c), PrintStmt(Ident("x"))>>,
         <<>>, <<>>),
      PrintStmt(Ident("x"))>>
\* a block whose body is  x := a : the branches of an if, a while, a for
BlocksAssigning(a) ==
    {If(Bool(TRUE), <<Assign("x", a)>>, <<>>, <<>>),
     If(Bool(FALSE), <<>>, <<>>, <<Assign("x", a)>>),
     If(Bool(FALSE), <<>>, <<[condition |-> Bool(TRUE), body |-> <<Assign("x", a)>>]>>,
        <<>>),
     While(Bool(FALSE), <<Assign("x", a)>>),
     For("i", Num(0), Num(0), FALSE, Num(1), <<Assign("x", a)>>)}
\* the block, then  print x
GoneProgram(block) == <<block, PrintStmt(Ident("x"))>>
AssignPrograms ==
    {UpdateProgram(a, b) : a \in NumLits, b \in NumLits}
    \cup {InnerProgram(a, b) : a \in NumLits, b \in NumLits}
    \cup {ShadowProgram(a, b, c) : a \in NumLits, b \in NumLits, c \in NumLits}
    \cup {GoneProgram(block) : block \in UNION {BlocksAssigning(a) : a \in NumLits}}
AssignInit ==
    /\ ast \in {Program(body) : body \in AssignPrograms}
    /\ phase = "parsed"
    /\ result = NoResult
    /\ state = ResetState
    /\ frames = <<>>
    /\ heap = NewHeap(<<>>, 1)
    /\ output = <<>>
    /\ trace = <<>>
    /\ last = NoCall
    /\ tally = NoTally
    /\ FrontIdle
AssignSpec == AssignInit /\ [][Next]_vars

\* ------------------------------------- programs for the locals of a body
\* func foo(n) print (n and b) end  foo(a): the scratch local first used in foo
ScratchInFunction(a, b) ==
    <<FunctionDecl("foo", <<"n">>, <<PrintStmt(Binary("and", Ident("n"), b))>>),
      ExprStmt(FunctionCall("foo", <<a>>))>>
\* x := a  print (x or b)  func foo() print (a and b) end  foo(): the scratch
\* local first used in main, then used in foo
ScratchInMainFirst(a, b) ==
    <<Assign("x", a), PrintStmt(Binary("or", Ident("x"), b)),
      FunctionDecl("foo", <<>>, <<PrintStmt(Binary("and", a, b))>>),
      ExprStmt(FunctionCall("foo", <<>>))>>
\* func foo(n) print (n and b) end  print (a or b): first foo, then main
ScratchInFunctionFirst(a, b) ==
    <<FunctionDecl("foo", <<"n">>, <<PrintStmt(Binary("and", Ident("n"), b))>>),
      PrintStmt(Binary("or", a, b))>>
\* i := a  for i := 1, b do print i end  func foo(n) if 1 and 2 then print n end end
ForThenFunction(a, b) ==
    <<Assign("i", a),
      For("i", Num(1), b, FALSE, Num(1), <<PrintStmt(Ident("i"))>>),
      PrintStmt(Ident("i")),
      FunctionDecl("foo", <<"n">>,
        <<If(Binary("and", Num(1), Num(2)), <<PrintStmt(Ident("n"))>>, <<>>, <<>>)>>)>>
LocalsPrograms ==
    UNION {{ScratchInFunction(a, b), ScratchInMainFirst(a, b),
            ScratchInFunctionFirst(a, b), ForThenFunction(a, b), OuterReadProgram(a)} :
                a \in NumLits, b \in NumLits}
LocalsInit ==
    /\ ast \in {Program(body) : body \in LocalsPrograms}
    /\ phase = "parsed"
    /\ result = NoResult
    /\ state = ResetState
    /\ frames = <<>>
    /\ heap = NewHeap(<<>>, 1)
    /\ output = <<>>
    /\ trace = <<>>
    /\ last = NoCall
    /\ tally = NoTally
    /\ FrontIdle
LocalsSpec == LocalsInit /\ [][Next]_vars

\* ------------------------------------------ programs for function names
\* func n1() print 1 end  func n2(p) print 2 end  n2(0)  n1()  print a
TwoFunctions(n1, n2, a) ==
    <<FunctionDecl(n1, <<>>, <<PrintStmt(Num(1))>>),
      FunctionDecl(n2, <<"p">>, <<PrintStmt(Num(2))>>),
      ExprStmt(FunctionCall(n2, <<Num(0)>>)),
      ExprStmt(FunctionCall(n1, <<>>)),
      PrintStmt(a)>>
\* names of no other function, and the names of main and of two helpers
FunctionNames == {"f", "g", "main", "box_number", "is_truthy"}
NamePrograms ==
    {TwoFunctions(n1, n2, a) :
        n1 \in FunctionNames, n2 \in FunctionNames, a \in NumLits}
NameInit ==
    /\ ast \in {Program(body) : body \in NamePrograms}
    /\ phase = "parsed"
    /\ result = NoResult
    /\ state = ResetState
    /\ frames = <<>>
    /\ heap = NewHeap(<<>>, 1)
    /\ output = <<>>
    /\ trace = <<>>
    /\ last = NoCall
    /\ tally = NoTally
    /\ FrontIdle
NameSpec == NameInit /\ [][Next]_vars

\* ------------------------------------------ one compilation after another
\* compile called again in the same process, with another AST and the
\* module-level state that the call before left behind
AgainPrograms ==
    {<<Assign("x", Num(1)), PrintStmt(Ident("x"))>>,
     <<PrintStmt(Ident("x"))>>,
     <<PrintStmt(Str(<<104, 105>>))>>,
     <<PrintStmt(Str(<<104>>)), PrintStmt(Str(<<104, 105>>))>>,
     <<PrintStmt(Binary("and", Num(1), Num(2)))>>,
     <<Assign("y", Num(1)), PrintStmt(Binary("or", Ident("y"), Num(2)))>>,
     <<FunctionDecl("f", <<>>, <<PrintStmt(Num(1))>>),
       ExprStmt(FunctionCall("f", <<>>))>>,
     <<ExprStmt(FunctionCall("f", <<>>))>>,
     <<For("i", Num(0), Num(1), FALSE, Num(1), <<PrintStmt(Ident("i"))>>)>>,
     \* aborted inside the scope of an if, after x was declared there
     <<If(Bool(TRUE), <<LocalAssign("x", Num(1)), PrintStmt(Ident("z"))>>,
          <<>>, <<>>)>>,
     \* aborted inside the body of a function, after p and a local
     <<Assign("a", Num(1)),
       FunctionDecl("f", <<"p">>,
            <<LocalAssign("x", Str(<<104>>)), PrintStmt(Ident("z"))>>)>>,
     \* aborted inside a loop in a function, after the scratch local
     <<FunctionDecl("g", <<>>,
            <<While(Binary("and", Num(1), Num(2)),
                    <<PrintStmt(Ident("z"))>>)>>)>>}
AgainInit ==
    /\ ast \in {Program(body) : body \in AgainPrograms}
    /\ phase = "parsed"
    /\ result = NoResult
    /\ state = ResetState
    /\ frames = <<>>
    /\ heap = NewHeap(<<>>, 1)
    /\ output = <<>>
    /\ trace = <<>>
    /\ last = NoCall
    /\ tally = NoTally
    /\ FrontIdle
\* the next AST to compile; last keeps the call before and what it threw
Another ==
    /\ phase = "compiled"
    /\ ast' \in {Program(body) : body \in AgainPrograms}
    /\ phase' = "parsed"
    /\ last' = [NoCall EXCEPT !.name = "compile", !.args = <<ast>>,
                              !.results = <<result.thrown>>]
    /\ UNCHANGED <<result, state, frames, heap, output, trace, tally>>
    /\ UNCHANGED front
AgainNext == Compile \/ Another
AgainSpec == AgainInit /\ [][AgainNext]_vars

\* is_truthy called on the cells that the box helpers have written
Cells == {tally.initial + BoxSize * k : k \in 0..(tally.allocations - 1)}
IsTruthyOf == \E ptr \in Cells : HelperCall("is_truthy", <<ptr>>)
TruthNext == BoxNumber \/ BoxBool \/ BoxString \/ BoxNil \/ IsTruthyOf
TruthSpec == HeapInit /\ [][TruthNext]_vars

\* ------------------------------------------------ a string table on its own
\* getOffset called again and again on one table created by
\* createStringTable, with strings that repeat, the empty string and a
\* string whose character takes two bytes.
MaxAsked == 4
TableStrings == {<<>>, <<104>>, <<104, 105>>, <<105>>, <<233>>}
TableInit ==
    /\ ast = Program(<<>>)
    /\ phase = "table"
    /\ result = NoResult
    /\ state = ResetState
    /\ frames = <<>>
    /\ heap = NewHeap(<<>>, 1)
    /\ output = <<>>
    /\ trace = <<>>
    /\ last = NoCall
    /\ tally = NoTally
    /\ FrontIdle
Asked(str, r) ==
    /\ table' = r.strings
    /\ asked' = Append(asked, [str |-> str, offset |-> r.offset])
GetOffset ==
    /\ phase = "table"
    /\ Len(asked) < MaxAsked
    /\ \E str \in TableStrings : Asked(str, getOffset(table, str))
    /\ UNCHANGED <<ast, phase, result, state, frames, heap, output, trace,
                   last, tally, source, lexed, tokens, parsed>>
TableNext == GetOffset
TableSpec == TableInit /\ [][TableNext]_vars

\* ------------------------------------------------------ the lexer on its own
\* tokenize handed every source made of up to MaxFragments fragments:
\* digits and dots, quotes of both kinds, the escape sequences, a letter,
\* white space, operators of one and two characters, a comment opener and
\* characters the lexer does not know.
MaxFragments == 3
Fragments ==
    {<<"1">>, <<".">>, <<".", "2">>, <<"\"">>, <<"'">>, <<"\\", "n">>,
     <<"\\", "t">>, <<"\\", "\"">>, <<"a">>, <<" ">>, <<"\n">>, <<":", "=">>,
     <<":">>, <<"=">>, <<"<">>, <<"~">>, <<"-">>, <<"@">>}
RECURSIVE Sources(_)
Sources(n) ==
    IF n = 0 THEN {<<>>}
    ELSE LET shorter == Sources(n - 1)
         IN  shorter \cup {s \o f : s \in shorter, f \in Fragments}
LexInit ==
    /\ ast = Program(<<>>)
    /\ phase = "source"
    /\ result = NoResult
    /\ state = ResetState
    /\ frames = <<>>
    /\ heap = NewHeap(<<>>, 1)
    /\ output = <<>>
    /\ trace = <<>>
    /\ last = NoCall
    /\ tally = NoTally
    /\ source \in Sources(MaxFragments)
    /\ lexed = [tokens |-> <<>>, error |-> NoTokenError]
    /\ tokens = <<>>
    /\ parsed = <<>>
    /\ table = NewStringTable
    /\ asked = <<>>
Tokenize ==
    /\ phase = "source"
    /\ lexed' = tokenize(source)
    /\ phase' = "lexed"
    /\ UNCHANGED <<ast, result, state, frames, heap, output, trace, last,
                   tally, source, tokens, parsed, table, asked>>
LexNext == Tokenize
LexSpec == LexInit /\ [][LexNext]_vars

\* ----------------------------------------------------- the parser on its own
\* The parser is given token sequences that end in EOF: expression
\* statements of three operands, and programs of whole statements, blocks
\* nested up to MaxDepth, with or without a broken statement innermost.
MaxDepth == 2
IdTok(c) == Tok("IDENTIFIER", <<c>>)
NumTok(c) == Tok("NUMBER", <<c>>)
Word(type) == Tok(type, <<>>)
EOFTok == Tok("EOF", <<>>)
OperatorTypes ==
    {"OR", "AND", "EQEQ", "NE", "LT", "GT", "LE", "GE", "PLUS", "MINUS",
     "STAR", "SLASH", "MOD", "CARET"}
\* a op1 b op2 c
Expr3(op1, op2) ==
    <<IdTok("a"), Word(op1), IdTok("b"), Word(op2), IdTok("c"), EOFTok>>
\* a op -b
ExprNeg(op) == <<IdTok("a"), Word(op), Word("MINUS"), IdTok("b"), EOFTok>>
ExpressionInputs ==
    {Expr3(op1, op2) : op1 \in OperatorTypes, op2 \in OperatorTypes}
        \cup {ExprNeg(op) : op \in OperatorTypes}
\* x = 1
AssignToks == <<IdTok("x"), Word("ASSIGN"), NumTok("1")>>
\* print x
PrintToks == <<Word("PRINT"), IdTok("x")>>
\* whole statements, with the statements they parse to
WholeStatements ==
    {[toks |-> <<>>, body |-> <<>>],
     [toks |-> AssignToks, body |-> <<Assign(<<"x">>, Num(1))>>],
     [toks |-> PrintToks \o AssignToks,
      body |-> <<PrintStmt(Ident(<<"x">>)), Assign(<<"x">>, Num(1))>>]}
\* statements no parse completes: `)`, `local 1`, `x =`, `if x then`
BrokenStatements ==
    {<<Word("RPAREN")>>,
     <<Word("LOCAL"), NumTok("1")>>,
     <<IdTok("x"), Word("ASSIGN")>>,
     <<Word("IF"), IdTok("x"), Word("THEN")>>}
\* the statements with a block, around the tokens of the block
Blocks(inner) ==
    {<<Word("IF"), IdTok("x"), Word("THEN")>> \o inner \o <<Word("END")>>,
     <<Word("IF"), IdTok("x"), Word("THEN"), Word("ELSE")>> \o inner
        \o <<Word("END")>>,
     <<Word("IF"), IdTok("x"), Word("THEN"), Word("ELIF"), IdTok("x"),
       Word("THEN")>> \o inner \o <<Word("END")>>,
     <<Word("WHILE"), IdTok("x"), Word("DO")>> \o inner \o <<Word("END")>>,
     <<Word("FOR"), IdTok("i"), Word("ASSIGN"), NumTok("1"), Word("COMMA"),
       NumTok("2"), Word("DO")>> \o inner \o <<Word("END")>>,
     <<Word("FOR"), IdTok("i"), Word("ASSIGN"), NumTok("1"), Word("COMMA"),
       NumTok("2"), Word("COMMA"), NumTok("1"), Word("DO")>> \o inner
        \o <<Word("END")>>,
     <<Word("FUNC"), IdTok("f"), Word("LPAREN"), Word("RPAREN")>> \o inner
        \o <<Word("END")>>,
     <<Word("FUNC"), IdTok("f"), Word("LPAREN"), IdTok("p"), Word("COMMA"),
       IdTok("q"), Word("RPAREN")>> \o inner \o <<Word("END")>>}
\* the whole statements put inside a block
InnerStatements == {w \in WholeStatements : Len(w.body) <= 1}
\* a broken statement, bare or under up to d blocks, each block with whole
\* statements before it
RECURSIVE BrokenTails(_)
BrokenTails(d) ==
    IF d = 0 THEN BrokenStatements
    ELSE BrokenStatements
            \cup UNION {Blocks(w.toks \o t) :
                            w \in InnerStatements, t \in BrokenTails(d - 1)}
\* whole statements under d blocks
RECURSIVE WholeTails(_)
WholeTails(d) ==
    IF d = 0 THEN {<<>>}
    ELSE {<<>>} \cup UNION {Blocks(w.toks \o t) :
                                w \in InnerStatements, t \in WholeTails(d - 1)}
ProgramInputs ==
    {w.toks \o t \o <<EOFTok>> :
        w \in WholeStatements, t \in BrokenTails(MaxDepth) \cup WholeTails(MaxDepth)}
ParseInit ==
    /\ ast = Program(<<>>)
    /\ phase = "tokens"
    /\ result = NoResult
    /\ state = ResetState
    /\ frames = <<>>
    /\ heap = NewHeap(<<>>, 1)
    /\ output = <<>>
    /\ trace = <<>>
    /\ last = NoCall
    /\ tally = NoTally
    /\ source = <<>>
    /\ lexed = <<>>
    /\ tokens \in ExpressionInputs \cup ProgramInputs
    /\ parsed = <<>>
    /\ table = NewStringTable
    /\ asked = <<>>
Parse ==
    /\ phase = "tokens"
    /\ parsed' = parse(tokens)
    /\ phase' = "parsed"
    /\ UNCHANGED <<ast, result, state, frames, heap, output, trace, last,
                   tally, source, lexed, tokens, table, asked>>
ParseNext == Parse
ParseSpec == ParseInit /\ [][ParseNext]_vars

\* ------------------------------------- the parser on any tokens whatever
\* Token lists that end in EOF and follow no grammar: every two tokens, each
\* beginning of one program, and lists with an EOF before the end.
TokenTypes ==
    {"IF", "THEN", "ELSE", "ELIF", "END", "WHILE", "DO", "FOR", "FUNC", "RET",
     "LOCAL", "PRINT", "PRINTLN", "ASSIGN", "COMMA", "LPAREN", "RPAREN",
     "NUMBER", "STRING", "IDENTIFIER", "TRUE", "FALSE", "NOT", "COMMENT", "EOF"}
        \cup OperatorTypes
\* func f(p) for i = 1, 2 do if p then x = f(p, -1) else print (x) end end end
SampleTokens ==
    <<Word("FUNC"), IdTok("f"), Word("LPAREN"), IdTok("p"), Word("RPAREN"),
      Word("FOR"), IdTok("i"), Word("ASSIGN"), NumTok("1"), Word("COMMA"),
      NumTok("2"), Word("DO"),
      Word("IF"), IdTok("p"), Word("THEN"),
      IdTok("x"), Word("ASSIGN"), IdTok("f"), Word("LPAREN"), IdTok("p"),
      Word("COMMA"), Word("MINUS"), NumTok("1"), Word("RPAREN"),
      Word("ELSE"), Word("PRINT"), Word("LPAREN"), IdTok("x"), Word("RPAREN"),
      Word("END"), Word("END"), Word("END")>>
AnyInputs ==
    {<<Word(t1), Word(t2), EOFTok>> : t1 \in TokenTypes, t2 \in TokenTypes}
    \cup {SubSeq(SampleTokens, 1, n) \o <<EOFTok>> : n \in 0..Len(SampleTokens)}
    \cup {<<IdTok("x"), Word("ASSIGN"), EOFTok>>,
          <<IdTok("f"), Word("LPAREN"), IdTok("a"), Word("COMMA"), EOFTok>>,
          <<Word("IF"), IdTok("x"), Word("THEN"), Word("ELIF"), EOFTok>>}
AnyInit ==
    /\ ast = Program(<<>>)
    /\ phase = "tokens"
    /\ result = NoResult
    /\ state = ResetState
    /\ frames = <<>>
    /\ heap = NewHeap(<<>>, 1)
    /\ output = <<>>
    /\ trace = <<>>
    /\ last = NoCall
    /\ tally = NoTally
    /\ source = <<>>
    /\ lexed = <<>>
    /\ tokens \in AnyInputs
    /\ parsed = <<>>
    /\ table = NewStringTable
    /\ asked = <<>>
AnySpec == AnyInit /\ [][ParseNext]_vars

\* ------------------------------------------------------ control flow, run
\* if c1 then print 1 elif c2 then print 2 ... [else print 0] end, with
\* conditions of every truthiness; and for i := s, e [, k] do print i end
\* with bounds and steps of either sign
RECURSIVE Conditions(_)
Conditions(n) ==
    IF n = 0 THEN {<<>>}
    ELSE {Append(cs, c) : cs \in Conditions(n - 1), c \in FewAtoms}
ElifsOf(cs) ==
    [k \in 1..(Len(cs) - 1) |->
        [condition |-> cs[k + 1], body |-> <<PrintStmt(Num(k + 1))>>]]
IfProgram(cs, hasElse) ==
    <<If(cs[1], <<PrintStmt(Num(1))>>, ElifsOf(cs),
         IF hasElse THEN <<PrintStmt(Num(0))>> ELSE <<>>)>>
IfPrograms ==
    {IfProgram(cs, hasElse) :
        cs \in Conditions(1) \cup Conditions(2) \cup Conditions(3),
        hasElse \in BOOLEAN}
\* -1, 0 .. MaxNum; a negative number is the unary minus of a literal
Neg(v) == Unary("-", Num(v))
BoundLits == NumLits \cup {Neg(1)}
StepLits == BoundLits \cup {Neg(MaxNum)}
ForFlowPrograms ==
    {<<For("i", s, e, TRUE, k, <<PrintStmt(Ident("i"))>>)>> :
        s \in BoundLits, e \in BoundLits, k \in StepLits}
    \cup {<<For("i", s, e, FALSE, Num(1), <<PrintStmt(Ident("i"))>>)>> :
        s \in BoundLits, e \in BoundLits}
FlowInit ==
    /\ ast \in {Program(body) : body \in IfPrograms \cup ForFlowPrograms}
    /\ phase = "parsed"
    /\ result = NoResult
    /\ state = ResetState
    /\ frames = <<>>
    /\ heap = NewHeap(<<>>, 1)
    /\ output = <<>>
    /\ trace = <<>>
    /\ last = NoCall
    /\ tally = NoTally
    /\ FrontIdle
FlowSpec == FlowInit /\ [][Next]_vars

\* ------------------------------------------------------------- loops, run
\* for i := s, e, 0 do body end with s <= e, the body empty, printing i,
\* or assigning i a value past e
PastEnd == Num(MaxNum + 1)
ZeroStepBodies ==
    {<<>>, <<PrintStmt(Ident("i"))>>, <<Assign("i", PastEnd)>>,
     <<PrintStmt(Ident("i")), Assign("i", PastEnd)>>}
ZeroStepPrograms ==
    {<<For("i", Num(s), Num(e), TRUE, Num(0), body)>> :
        s \in 0..MaxNum, e \in 0..MaxNum, body \in ZeroStepBodies}
\* for i := s, e, k do body end with a body that uses and, or, or a for loop
\* of its own
FlagBodies ==
    {<<PrintStmt(Binary(op, Num(1), Num(0)))>> : op \in LogicOps}
    \cup {<<For("j", Num(0), Num(1), TRUE, k, <<PrintStmt(Ident("j"))>>)>> :
            k \in {Num(1), Neg(1)}}
    \cup {<<PrintStmt(Ident("i"))>>}
FlagPrograms ==
    {<<For("i", Num(s), Num(e), TRUE, k, body)>> :
        s \in 0..MaxNum, e \in 0..MaxNum, k \in {Num(1), Neg(1)},
        body \in FlagBodies}
LoopPrograms == ZeroStepPrograms \cup FlagPrograms
LoopInit ==
    /\ ast \in {Program(body) : body \in LoopPrograms}
    /\ phase = "parsed"
    /\ result = NoResult
    /\ state = ResetState
    /\ frames = <<>>
    /\ heap = NewHeap(<<>>, 1)
    /\ output = <<>>
    /\ trace = <<>>
    /\ last = NoCall
    /\ tally = NoTally
    /\ FrontIdle
LoopSpec == LoopInit /\ [][Next]_vars

\* ------------------------------------------- programs for evaluation order
\* print (l op r), for every binary operator of the compiler but / and %,
\* whose results are not always whole numbers
BinaryOperators == (DOMAIN nativeBinOps \ {"/"}) \cup {"^"} \cup LogicOps
Operands == NumLits \cup {Binary("-", Num(MaxNum), Num(1))}
OperatorPrograms ==
    {<<PrintStmt(Binary(op, l, r))>> :
        op \in BinaryOperators, l \in Operands, r \in Operands}
\* func f(p, q) print p print q end  print a  f(b, c)  println a
ArgsProgram(a, b, c) ==
    <<FunctionDecl("f", <<"p", "q">>,
        <<PrintStmt(Ident("p")), PrintStmt(Ident("q"))>>),
      PrintStmt(a),
      ExprStmt(FunctionCall("f", <<b, c>>)),
      PrintlnStmt(a)>>
ArgsPrograms ==
    {ArgsProgram(a, b, c) : a \in {Num(0), Str(<<104>>)}, b \in Atoms, c \in Atoms}
OrderPrograms == OperatorPrograms \cup ArgsPrograms
OrderInit ==
    /\ ast \in {Program(body) : body \in OrderPrograms}
    /\ phase = "parsed"
    /\ result = NoResult
    /\ state = ResetState
    /\ frames = <<>>
    /\ heap = NewHeap(<<>>, 1)
    /\ output = <<>>
    /\ trace = <<>>
    /\ last = NoCall
    /\ tally = NoTally
    /\ FrontIdle
OrderSpec == OrderInit /\ [][Next]_vars

\* ================================================================== claims
Compiled == phase # "parsed"
Finished == phase \in {"done", "trapped", "rejected"}
NoError == result.error.name = "null"
\* what the host's print appends for a literal
Printed(lit) ==
    CASE lit.type = "NumberLiteral" -> [t |-> "number", v |-> <<lit.value>>]
    [] lit.type = "StringLiteral" -> [t |-> "string", v |-> lit.value]
    [] lit.type = "BooleanLiteral" -> [t |-> "bool", v |-> <<B2I(lit.value)>>]

\* C1: whatever AST compile was given, it never returns empty bytes together
\* with a null error: either the bytes are non-empty and the error is null,
\* or the bytes are empty and the error is not null.
C1_BytesOrError ==
    Compiled =>
        \/ result.bytes # <<>> /\ NoError
        \/ result.bytes = <<>> /\ ~NoError

\* C2: in  i := a  func foo(n) i := b  print i  print n end  foo(c)  print i
\* the assignment inside foo uses a slot of foo other than its parameter's,
\* so the run prints b, then c, then the untouched outer a.
C2_FunctionSlotsAreOwn ==
    \A a \in NumLits, b \in NumLits, c \in NumLits :
        ast = Program(ScopeProgram(a, b, c)) =>
            /\ Compiled /\ NoError =>
                 BodyOf(state.functionBodies, "foo").code[3] # I("local.set", 0)
            /\ Finished =>
                 /\ phase = "done"
                 /\ output = <<Printed(b), Printed(c), Printed(a)>>

\* C3: in  i := a  for i := s, e do print i end  print i  the loop index is a
\* fresh binding, so the print after the loop shows the outer value a.
C3_OuterKeepsValueAfterFor ==
    \A a \in NumLits, s \in NumLits, e \in NumLits :
        (phase = "done" /\ ast = Program(ForProgram(a, s, e))) =>
            Peek(output) = Printed(a)

C5_EnsureSpaceFirst ==
    last.name \in Allocators =>
        /\ last.after.events # <<>>
        /\ last.after.events[1].ev = "ensure"
        /\ last.after.events[1].n >=
                BoxSize + (IF last.name = "concat"
                           THEN StringLength(last.before, last.args[1])
                                + StringLength(last.before, last.args[2])
                           ELSE 0)

\* The value of an and/or expression over literals, as the language defines
\* it: and yields its left operand if that is falsy, else its right operand;
\* or yields its left operand if that is truthy, else its right operand.
Truthy(lit) ==
    CASE lit.type = "NumberLiteral" -> lit.value # 0
    [] lit.type = "StringLiteral" -> lit.value # <<>>
    [] lit.type = "BooleanLiteral" -> lit.value
RECURSIVE Value(_)
Value(e) ==
    IF e.type # "BinaryExpression" THEN e
    ELSE IF Truthy(Value(e.left)) = (e.operator = "and") THEN Value(e.right)
    ELSE Value(e.left)
\* the program is  print (a op b)  with op one of and, or
IsLogicProgram ==
    /\ Len(ast.body) = 1
    /\ ast.body[1].type = "PrintStatement"
    /\ ast.body[1].expression.type = "BinaryExpression"
    /\ ast.body[1].expression.operator \in LogicOps
CodeLen(e) == Len(compileExpression(e, ResetState).code)
\* how often main has executed the instruction at pc
Executions(pc) ==
    Cardinality({k \in 1..Len(trace) : trace[k] = <<ModMain(result.bytes), pc>>})
\* The code of a op b is: a, local.set, local.get, call is_truthy, if, then
\* b, else, local.get for and (local.get, else, b for or), end.
OperandB(e) ==
    LET first == CodeLen(e.left) + (IF e.operator = "and" THEN 5 ELSE 7)
    IN  first..(first + CodeLen(e.right) - 1)
Skips(e) == Truthy(Value(e.left)) = (e.operator = "or")

\* C6: in print (a and b) with a falsy, and in print (a or b) with a truthy,
\* no instruction of b is ever executed; and in every case a is evaluated
\* exactly once: no instruction of a is executed twice, and a finished run
\* has entered the code of a once.
C6_ShortCircuit ==
    (IsLogicProgram /\ phase \in {"running", "done", "trapped"}) =>
        LET e == ast.body[1].expression IN
        /\ Skips(e) => \A pc \in OperandB(e) : Executions(pc) = 0
        /\ \A pc \in 1..CodeLen(e.left) : Executions(pc) <= 1
        /\ Finished => phase = "done" /\ Executions(1) = 1
\* a finished run of a and (b op c) with a falsy
C6_SkippedOperand ==
    /\ IsLogicProgram
    /\ phase = "done"
    /\ ast.body[1].expression.operator = "and"
    /\ ast.body[1].expression.right.type = "BinaryExpression"
    /\ Skips(ast.body[1].expression)

\* C7: print e, for e built from and/or over literals, nested and chained
\* either way, prints the value of e: the first falsy operand of an and (else
\* its last operand), the first truthy operand of an or (else its last).
C7_AndOrValue ==
    (IsLogicProgram /\ Finished) =>
        /\ phase = "done"
        /\ output = <<Printed(Value(ast.body[1].expression))>>
\* a finished run of (a op b) op c that printed c
C7_ChainValue ==
    /\ IsLogicProgram
    /\ phase = "done"
    /\ ast.body[1].expression.left.type = "BinaryExpression"
    /\ output = <<Printed(ast.body[1].expression.right)>>

\* C8: a call in a value position yields exactly one boxed value, a nil box
\* when the callee finishes without executing a ret: x := f() println x after
\* a callee without ret prints the callee's output and an empty line, and
\* println nil(a), with a ret 1 on the truthy path only, prints 1 or an
\* empty line.
C8_CallYieldsOneValue ==
    \A a \in Atoms :
        /\ (ast = Program(VoidCallProgram(a)) /\ Finished) =>
                phase = "done" /\ output = <<Printed(a), Newline>>
        /\ (ast = Program(SomeRetCallProgram(a)) /\ Finished) =>
                /\ phase = "done"
                /\ output = IF Truthy(a) THEN <<Printed(Num(1)), Newline>>
                            ELSE <<Newline>>

\* The net operand-stack effect of a piece of main's code in the module:
\* the values left on an empty stack, or undefined if the code does not
\* type-check on its own.
RECURSIVE EffectFrom(_, _, _, _)
EffectFrom(bytes, code, pc, v) ==
    IF ~v.ok THEN Undefined
    ELSE IF pc > Len(code) THEN Len(v.vals)
    ELSE EffectFrom(bytes, code, pc + 1,
            ValidateInstr(bytes, FuncBody(bytes, ModMain(bytes)).nlocals,
                          code[pc], v))
StackEffect(bytes, code) ==
    EffectFrom(bytes, code, 1,
        [vals |-> <<>>, ctrls |-> <<Frame("func", <<>>, 0)>>, ok |-> TRUE])
\* the code emitted for statement k of the program
StatementCode(k) ==
    compileStatement(ast.body[k],
        compileStatements(SubSeq(ast.body, 1, k - 1), 1, ResetState).st).code

\* C9: the code emitted for each statement of a program leaves the operand
\* stack as it found it, expression statements included.
C9_StatementsLeaveStack ==
    (phase = "compiled" /\ NoError /\ ast.body \in StmtPrograms) =>
        \A k \in 1..Len(ast.body) :
            StackEffect(result.bytes, StatementCode(k)) = 0

\* C10: a program whose top level has local x := ... twice for one name
\* makes compile return a non-null error.
C10_DuplicateLocalIsError ==
    (Compiled /\ \E j \in 1..Len(ast.body), k \in 1..Len(ast.body) :
                    /\ j < k
                    /\ ast.body[j].type = "LocalAssignStatement"
                    /\ ast.body[k].type = "LocalAssignStatement"
                    /\ ast.body[j].identifier = ast.body[k].identifier)
        => ~NoError

\* The strings asked for so far, each once, in the order of their first call.
RECURSIVE FirstAsked(_, _)
FirstAsked(k, seen) ==
    IF k > Len(asked) THEN <<>>
    ELSE IF asked[k].str \in seen THEN FirstAsked(k + 1, seen)
    ELSE <<asked[k].str>> \o FirstAsked(k + 1, seen \cup {asked[k].str})
\* Their UTF-8 bytes, a zero byte after each.
RECURSIVE Terminated(_)
Terminated(strs) ==
    IF strs = <<>> THEN <<>>
    ELSE encode(Head(strs)) \o <<0>> \o Terminated(Tail(strs))
\* The strings of strs that come before str.
RECURSIVE Earlier(_, _)
Earlier(strs, str) ==
    IF strs = <<>> \/ Head(strs) = str THEN <<>>
    ELSE <<Head(strs)>> \o Earlier(Tail(strs), str)
\* The bytes of the table begin with prefix at index offset.
BeginsAt(bytes, offset, prefix) ==
    /\ offset + Len(prefix) <= Len(bytes)
    /\ SubSeq(bytes, offset + 1, offset + Len(prefix)) = prefix

\* C11: after any sequence of getOffset calls, getBytes() is each distinct
\* string's UTF-8 bytes and a zero byte, once, in first-encounter order, and
\* every call returned the index at which its string begins in getBytes(),
\* the same on every call for that string.
C11_StringTable ==
    /\ getBytes(table) = Terminated(FirstAsked(1, {}))
    /\ \A k \in 1..Len(asked) :
        /\ BeginsAt(getBytes(table), asked[k].offset,
                    encode(asked[k].str) \o <<0>>)
        /\ asked[k].offset =
                Len(Terminated(Earlier(FirstAsked(1, {}), asked[k].str)))
        /\ \A j \in 1..Len(asked) :
                asked[j].str = asked[k].str => asked[j].offset = asked[k].offset
\* a two-byte string asked for twice, another string in between
C11_AskedAgain ==
    /\ Len(asked) = 3
    /\ asked[1].str = <<233>>
    /\ asked[2].str = <<104, 105>>
    /\ asked[3].str = <<233>>

Lexed == phase = "lexed"
LexError == lexed.error # NoTokenError
\* the tokens before the last one
Recognised == SubSeq(lexed.tokens, 1, Len(lexed.tokens) - 1)
WhiteSpace == {" ", "\t", "\r", "\n"}
\* the characters of the source from index from + 1 up to index to
Between(from, to) == {source[i] : i \in (from + 1)..to}
\* token t is a piece of the source: its text sits at start..end, a string's
\* between its quotes
IsPieceOfSource(t) ==
    /\ 0 <= t.start /\ t.start < t.end /\ t.end <= Len(source)
    /\ IF t.type = "STRING"
       THEN /\ source[t.start + 1] \in {"'", "\""}
            /\ source[t.end] = source[t.start + 1]
            /\ t.end - t.start = Len(t.value) + 2
       ELSE t.value = SubSeq(source, t.start + 1, t.end)
\* where the last recognised token ends
RecognisedEnd ==
    IF Recognised = <<>> THEN 0 ELSE Recognised[Len(Recognised)].end

\* what is left of the source lexes to no token, with the error returned
RestFails(rest) ==
    rest.tokens = <<>> /\ rest.error.message = lexed.error.message

\* C12: with or without a lex error, tokenize returns the tokens recognised
\* before the first error (all of them if there is none), in source order,
\* then exactly one EOF token: every token but the last is a piece of the
\* source, the pieces follow one another with nothing but white space
\* between them, without an error they reach the end of the source, and
\* with an error nothing that follows the last piece lexes to a token.
C12_TokensThenEOF ==
    Lexed =>
        /\ lexed.tokens # <<>>
        /\ lexed.tokens[Len(lexed.tokens)].type = "EOF"
        /\ \A k \in 1..Len(Recognised) :
            /\ Recognised[k].type # "EOF"
            /\ IsPieceOfSource(Recognised[k])
            /\ Between(IF k = 1 THEN 0 ELSE Recognised[k - 1].end,
                       Recognised[k].start) \subseteq WhiteSpace
        /\ ~LexError => Between(RecognisedEnd, Len(source)) \subseteq WhiteSpace
        /\ LexError => RestFails(tokenizeBare(
                            SubSeq(source, RecognisedEnd + 1, Len(source))))
\* a token, then a lex error
C12_TruncatedAtError ==
    /\ Lexed
    /\ LexError
    /\ Len(lexed.tokens) = 3
    /\ lexed.tokens[1].type = "NUMBER"
    /\ lexed.tokens[2].type = "IDENTIFIER"

\* The inside of a string literal in which every backslash begins one of
\* the escape sequences \n, \t, \" and no double quote stands unescaped.
RECURSIVE WellEscaped(_)
WellEscaped(chars) ==
    IF chars = <<>> THEN TRUE
    ELSE IF Head(chars) = "\\"
    THEN /\ Len(chars) >= 2
         /\ chars[2] \in {"n", "t", "\""}
         /\ WellEscaped(SubSeq(chars, 3, Len(chars)))
    ELSE Head(chars) # "\"" /\ WellEscaped(Tail(chars))
\* The text such an inside stands for.
RECURSIVE Unescape(_)
Unescape(chars) ==
    IF chars = <<>> THEN <<>>
    ELSE IF Head(chars) = "\\"
    THEN <<CASE chars[2] = "n" -> "\n"
             [] chars[2] = "t" -> "\t"
             [] OTHER -> chars[2]>> \o Unescape(SubSeq(chars, 3, Len(chars)))
    ELSE <<Head(chars)>> \o Unescape(Tail(chars))
Inside == SubSeq(source, 2, Len(source) - 1)
\* the source is one double-quoted literal with escape sequences in it
IsEscapedLiteral ==
    /\ Len(source) >= 2
    /\ source[1] = "\""
    /\ source[Len(source)] = "\""
    /\ WellEscaped(Inside)
    /\ "\\" \in Between(1, Len(source) - 1)

\* C14: a string literal with the escape sequences \n, \t and \" in it lexes
\* to one STRING token whose text has a newline, a tab and a double quote in
\* their place; an escaped quote does not end the literal.
C14_EscapesReplaced ==
    (Lexed /\ IsEscapedLiteral) =>
        /\ ~LexError
        /\ Len(lexed.tokens) = 2
        /\ lexed.tokens[1].type = "STRING"
        /\ lexed.tokens[1].value = Unescape(Inside)

\* A NUMBER text: digits, then at most once a '.' and at least one digit.
RECURSIVE AllDigits(_)
AllDigits(chars) ==
    chars = <<>> \/ (isDigit(Head(chars)) /\ AllDigits(Tail(chars)))
IsNumberText(chars) ==
    \/ chars # <<>> /\ AllDigits(chars)
    \/ \E k \in 2..(Len(chars) - 1) :
        /\ chars[k] = "."
        /\ AllDigits(SubSeq(chars, 1, k - 1))
        /\ AllDigits(SubSeq(chars, k + 1, Len(chars)))

\* C15: every NUMBER token's text is a run of digits optionally followed by
\* one '.' and at least one digit; none holds two '.' characters.
C15_NumberText ==
    Lexed =>
        \A k \in 1..Len(lexed.tokens) :
            lexed.tokens[k].type = "NUMBER" =>
                IsNumberText(lexed.tokens[k].value)

\* ---------------------------------------------------------------- C13
HasParsed == phase = "parsed"
\* the whole statements an input program begins with: its first tokens
\* tell which of WholeStatements they are
StartsWith(toks, start) ==
    Len(toks) >= Len(start) /\ SubSeq(toks, 1, Len(start)) = start
LeadingWhole(toks) ==
    CHOOSE w \in WholeStatements :
        /\ StartsWith(toks, w.toks)
        /\ \A v \in WholeStatements :
                StartsWith(toks, v.toks) => Len(v.toks) <= Len(w.toks)
IsProgramInput == tokens[1] # IdTok("a")
\* C13: when a parse fails, the body of the returned ast, and of the
\* program the error carries, is exactly the top-level statements that
\* were parsed whole before the error, also when the statement that
\* fails lies inside nested blocks.
C13_BodyBeforeError ==
    (HasParsed /\ IsProgramInput /\ parsed.error.name = "ParseError") =>
        /\ parsed.ast.body = LeadingWhole(tokens).body
        /\ parsed.error.body.body = LeadingWhole(tokens).body
\* a failure two blocks deep, after whole statements at every level
C13_NestedFailure ==
    /\ HasParsed
    /\ parsed.error.name = "ParseError"
    /\ parsed.ast.body = <<PrintStmt(Ident(<<"x">>)), Assign(<<"x">>, Num(1))>>
    /\ \E b1 \in BrokenStatements :
         \E b2 \in Blocks(AssignToks \o b1) :
            \E b3 \in Blocks(AssignToks \o b2) :
                tokens = PrintToks \o AssignToks \o b3 \o <<EOFTok>>

\* ---------------------------------------------------------------- C16
\* the binary operators from the lowest precedence to the highest, each
\* as <<token type, symbol>>
Precedence ==
    << {<<"OR", "or">>},
       {<<"AND", "and">>},
       {<<"EQEQ", "==">>, <<"NE", "~=">>},
       {<<"LT", "<">>, <<"GT", ">">>, <<"LE", "<=">>, <<"GE", ">=">>},
       {<<"PLUS", "+">>, <<"MINUS", "-">>},
       {<<"STAR", "*">>, <<"SLASH", "/">>},
       {<<"MOD", "%">>},
       {<<"CARET", "^">>} >>
LeftA == Ident(<<"a">>)
MiddleB == Ident(<<"b">>)
RightC == Ident(<<"c">>)
ParsedTo(body) ==
    /\ parsed.thrown = "none"
    /\ parsed.error = NoParseError
    /\ parsed.ast.body = body
\* C16: in a op1 b op2 c, with op2 of strictly higher precedence than
\* op1, the operator that binds tighter takes b: the parse is
\* Binary(op1, a, Binary(op2, b, c)).
C16_HigherBindsTighter ==
    \A i \in DOMAIN Precedence : \A j \in DOMAIN Precedence :
        \A op1 \in Precedence[i] : \A op2 \in Precedence[j] :
            (HasParsed /\ i < j /\ tokens = Expr3(op1[1], op2[1])) =>
                ParsedTo(<<ExprStmt(Binary(op1[2], LeftA,
                                Binary(op2[2], MiddleB, RightC)))>>)
\* a + b * c has been parsed to a + (b * c)
C16_SumOfProduct ==
    /\ HasParsed
    /\ tokens = Expr3("PLUS", "STAR")
    /\ ParsedTo(<<ExprStmt(Binary("+", LeftA,
                    Binary("*", MiddleB, RightC)))>>)

\* ---------------------------------------------------------------- C17
\* C17: a % b % c, without parentheses, does not parse: parse returns an
\* error that is not null.
C17_ModuloDoesNotChain ==
    (HasParsed /\ tokens = Expr3("MOD", "MOD")) =>
        /\ parsed.thrown = "none"
        /\ parsed.error # NoParseError
\* a % b % c has been parsed: a % b is a statement, and the second % is
\* where the error is
C17_SecondModuloFails ==
    /\ HasParsed
    /\ tokens = Expr3("MOD", "MOD")
    /\ parsed.error.name = "ParseError"
    /\ parsed.ast.body = <<ExprStmt(Binary("%", LeftA, MiddleB))>>

\* ---------------------------------------------------------------- C18
\* C18: a ^ -b parses without an error, to Binary('^', a, Unary('-', b)):
\* the right operand of ^ may begin with a unary operator.
C18_UnaryAfterCaret ==
    (HasParsed /\ tokens = ExprNeg("CARET")) =>
        ParsedTo(<<ExprStmt(Binary("^", LeftA, Unary("-", MiddleB)))>>)

\* ---------------------------------------------------------------- C19
IsIfProgram == Len(ast.body) = 1 /\ ast.body[1].type = "IfStatement"
Running == phase \in {"running", "done", "trapped"}
\* the conditions and the bodies of the if, in source order
BranchConditions(stmt) ==
    <<stmt.condition>>
        \o [k \in 1..Len(stmt.elifBranches) |-> stmt.elifBranches[k].condition]
BranchBodies(stmt) ==
    <<stmt.thenBranch>>
        \o [k \in 1..Len(stmt.elifBranches) |-> stmt.elifBranches[k].body]
\* the first branch with a truthy condition; one past the last if none
RECURSIVE FirstTruthy(_, _)
FirstTruthy(cs, k) ==
    IF k > Len(cs) \/ Truthy(cs[k]) THEN k ELSE FirstTruthy(cs, k + 1)
BodyLen(body) == Len(compileStatements(body, 1, ResetState).code)
\* The code of the if: condition 1, call is_truthy, if, body 1, else,
\* condition 2, call is_truthy, if, body 2, else, ..., the else branch,
\* and one end for each condition.
RECURSIVE ConditionStart(_, _, _)
ConditionStart(conditionLens, bodyLens, k) ==
    IF k = 1 THEN 1
    ELSE ConditionStart(conditionLens, bodyLens, k - 1)
            + conditionLens[k - 1] + 2 + bodyLens[k - 1] + 1
\* where the conditions, the bodies and the else branch lie in the code
LayoutFrom(conditionLens, starts, elseLen) ==
    [conditionCode |->
        [k \in DOMAIN conditionLens |->
            starts[k]..(starts[k] + conditionLens[k] - 1)],
     bodyCode |->
        [k \in DOMAIN conditionLens |->
            (starts[k] + conditionLens[k] + 2)..(starts[k + 1] - 2)],
     elseCode |->
        starts[Len(starts)]..(starts[Len(starts)] + elseLen - 1)]
LayoutOf(conditionLens, bodyLens, elseLen) ==
    LayoutFrom(conditionLens,
        [k \in 1..(Len(conditionLens) + 1) |->
            ConditionStart(conditionLens, bodyLens, k)],
        elseLen)
IfLayout(stmt) ==
    LayoutOf([k \in DOMAIN BranchConditions(stmt) |->
                CodeLen(BranchConditions(stmt)[k])],
             [k \in DOMAIN BranchBodies(stmt) |-> BodyLen(BranchBodies(stmt)[k])],
             BodyLen(stmt.elseBranch))
\* what the branch taken prints: its number, 0 for the else branch
TakenOutput(stmt, first) ==
    IF first <= Len(BranchConditions(stmt)) THEN <<Printed(Num(first))>>
    ELSE IF stmt.elseBranch # <<>> THEN <<Printed(Num(0))>>
    ELSE <<>>
FlowAsStated(stmt, first, layout) ==
    /\ \A k \in DOMAIN layout.conditionCode :
         /\ \A pc \in layout.conditionCode[k] :
                Executions(pc) <= 1 /\ (k > first => Executions(pc) = 0)
         /\ \A pc \in layout.bodyCode[k] :
                Executions(pc) <= 1 /\ (k # first => Executions(pc) = 0)
         /\ (Finished /\ k <= first) =>
                \A pc \in layout.conditionCode[k] : Executions(pc) = 1
         /\ (Finished /\ k = first) =>
                \A pc \in layout.bodyCode[k] : Executions(pc) = 1
    /\ \A pc \in layout.elseCode :
            Executions(pc) <= 1
                /\ (first <= Len(layout.conditionCode) => Executions(pc) = 0)
    /\ (Finished /\ first > Len(layout.conditionCode)) =>
            \A pc \in layout.elseCode : Executions(pc) = 1
    /\ Finished => phase = "done" /\ output = TakenOutput(stmt, first)
\* C19: in if / elif / else the conditions are evaluated in source order
\* up to the first truthy one, the branch of that condition is the only
\* one that runs, no later condition or body is executed, and the else
\* branch runs exactly when every condition is falsy.
C19_FirstTruthyBranch ==
    (IsIfProgram /\ Running) =>
        FlowAsStated(ast.body[1], FirstTruthy(BranchConditions(ast.body[1]), 1),
                     IfLayout(ast.body[1]))
\* a finished run that took the second of three branches, with an else
C19_ElifTaken ==
    /\ IsIfProgram
    /\ phase = "done"
    /\ Len(ast.body[1].elifBranches) = 2
    /\ ast.body[1].elseBranch # <<>>
    /\ FirstTruthy(BranchConditions(ast.body[1]), 1) = 2
    /\ output = <<Printed(Num(2))>>

\* ---------------------------------------------------------------- C20
IsForProgram == Len(ast.body) = 1 /\ ast.body[1].type = "ForStatement"
NumberOf(e) ==
    IF e.type = "UnaryExpression" THEN 0 - e.argument.value ELSE e.value
StepOf(stmt) == IF stmt.hasIncrement THEN NumberOf(stmt.increment) ELSE 1
\* the value of i in the n-th round
Round(stmt, n) ==
    NumberOf(stmt.assignment.expression) + (n - 1) * StepOf(stmt)
InRange(stmt, i) ==
    IF StepOf(stmt) >= 0 THEN i <= NumberOf(stmt.condition)
    ELSE i >= NumberOf(stmt.condition)
LoopAsStated(stmt) ==
    /\ \A n \in 1..Len(output) :
         /\ output[n] = Printed(Num(Round(stmt, n)))
         /\ InRange(stmt, Round(stmt, n))
    /\ Finished =>
         /\ phase = "done"
         /\ ~InRange(stmt, Round(stmt, Len(output) + 1))
C20_RanOnce ==
    /\ IsForProgram
    /\ phase = "done"
    /\ NumberOf(ast.body[1].assignment.expression) = NumberOf(ast.body[1].condition)
    /\ StepOf(ast.body[1]) # 0
    /\ Len(output) = 1

\* ---------------------------------------------------------------- C21
IsZeroStepLoop ==
    /\ IsForProgram
    /\ ast.body[1].hasIncrement
    /\ NumberOf(ast.body[1].increment) = 0
    /\ NumberOf(ast.body[1].assignment.expression)
            <= NumberOf(ast.body[1].condition)
\* the body assigns the loop variable
AssignsLoopVariable(stmt) ==
    \E k \in 1..Len(stmt.body) :
        /\ stmt.body[k].type = "AssignStatement"
        /\ stmt.body[k].identifier = stmt.assignment.identifier
\* how often main has taken the branch back to the head of its loop
BackEdges ==
    Cardinality({k \in 1..Len(trace) :
        /\ trace[k][1] = ModMain(result.bytes)
        /\ FuncBody(result.bytes, trace[k][1]).code[trace[k][2]] = I("br", 0)})
\* The run is never over but by a trap, every round taken has made an
\* allocation of its own, and a trapped run returns the one RuntimeError
\* line.
NeverExits ==
    /\ phase \in {"running", "trapped"}
    /\ BackEdges > 0 => tally.allocations > BackEdges
    /\ heap.heap_ptr = tally.initial + BoxSize * tally.allocations
    /\ phase = "trapped" => RunResult = <<[t |-> "RuntimeError", v |-> <<>>]>>
IsOperatorProgram ==
    /\ Len(ast.body) = 1
    /\ ast.body[1].type = "PrintStatement"
    /\ ast.body[1].expression.type = "BinaryExpression"
IsArgsProgram ==
    /\ Len(ast.body) = 4
    /\ ast.body[1].type = "FunctionDeclStatement"
    /\ ast.body[3].type = "ExpressionStatement"
\* the number a literal or a subtraction of literals stands for
RECURSIVE Minus(_)
Minus(e) ==
    IF e.type = "NumberLiteral" THEN e.value ELSE Minus(e.left) - Minus(e.right)
MainCode == FuncBody(result.bytes, ModMain(result.bytes)).code
\* where main holds the code of the right operand of e
RightFirst(e) ==
    CodeLen(e.left) + (CASE e.operator = "and" -> 5
                         [] e.operator = "or" -> 7
                         [] OTHER -> 2)
CodeOfRight(e) ==
    compileExpression(e.right, compileExpression(e.left, ResetState).st).code
\* every execution of a main instruction in first is before every one in then
ExecutedBefore(first, then) ==
    \A i \in 1..Len(trace), j \in 1..Len(trace) :
        (/\ trace[i][1] = ModMain(result.bytes) /\ trace[i][2] \in first
         /\ trace[j][1] = ModMain(result.bytes) /\ trace[j][2] \in then)
            => i < j
OperandsInOrder(e, code) ==
    /\ SubSeq(code, 1, CodeLen(e.left)) = compileExpression(e.left, ResetState).code
    /\ SubSeq(code, RightFirst(e), RightFirst(e) + CodeLen(e.right) - 1)
            = CodeOfRight(e)
    /\ ExecutedBefore(1..CodeLen(e.left),
                      RightFirst(e)..(RightFirst(e) + CodeLen(e.right) - 1))
    /\ (phase = "done" /\ e.operator = "-")
            => output = <<Printed(Num(Minus(e.left) - Minus(e.right)))>>
ArgsInOrder(a, b, c, code) ==
    /\ LET first == compileExpression(b, compileExpression(a, ResetState).st)
       IN  SubSeq(code, CodeLen(a) + 2, Len(code) - CodeLen(a) - 2)
                = first.code \o compileExpression(c, first.st).code
                    \o <<I("call", NumImports(result.bytes)
                                    + Len(definedFunctions))>>
    /\ ExecutedBefore((CodeLen(a) + 2)..(CodeLen(a) + 1 + CodeLen(b)),
                      (CodeLen(a) + 2 + CodeLen(b))..(Len(code) - CodeLen(a) - 3))
    /\ \E k \in 0..5 :
            output = SubSeq(<<Printed(a), Printed(b), Printed(c), Printed(a),
                             Newline>>, 1, k)
    /\ phase = "done" => Len(output) = 5
C22_EvaluationOrder ==
    /\ (IsOperatorProgram /\ Compiled /\ NoError)
            => OperandsInOrder(ast.body[1].expression, MainCode)
    /\ (IsArgsProgram /\ Running)
            => ArgsInOrder(ast.body[2].expression, ast.body[3].expression.args[1],
                           ast.body[3].expression.args[2], MainCode)
\* f("hi", 0) has run between the two prints of main
C22_ArgumentsThenCall ==
    /\ IsArgsProgram
    /\ phase = "done"
    /\ ast.body[3].expression.args = <<Str(<<104, 105>>), Num(0)>>
    /\ Len(output) = 5

\* C23: is_truthy answers 0 for a cell holding nil, the number 0, the empty
\* string or false, and 1 for a cell holding any other number, string or true.
\* the kind of value in the cell at ptr, read from the cell's tag
Holds(h, ptr, tag) == load(h, ptr) = tag
Falsy(h, ptr) ==
    \/ Holds(h, ptr, TagNil)
    \/ Holds(h, ptr, TagNumber) /\ load(h, ptr + 8) = 0
    \/ Holds(h, ptr, TagString) /\ load(h, ptr + 8) = 0
    \/ Holds(h, ptr, TagBool) /\ load(h, ptr + 4) = 0
C23_IsTruthy ==
    last.name = "is_truthy" =>
        /\ load(last.before, last.args[1])
                \in {TagNil, TagNumber, TagString, TagBool}
        /\ last.results = <<IF Falsy(last.before, last.args[1]) THEN 0 ELSE 1>>
        /\ last.after.mem = last.before.mem
        /\ last.after.heap_ptr = last.before.heap_ptr
\* is_truthy has answered 0 for the box of the empty string
C23_EmptyStringFalsy ==
    /\ last.name = "is_truthy"
    /\ Holds(last.before, last.args[1], TagString)
    /\ load(last.before, last.args[1] + 8) = 0
    /\ last.results = <<0>>

\* C24: what compile returns for an AST (bytes, error, string data) is what
\* it returns for that AST in a new process, whatever was compiled before,
\* also when the compilation before was aborted inside a nested scope or a
\* function body.
InNewProcess(tree) == compile(tree, ResetState)
C24_CompileIsPure ==
    phase = "compiled" =>
        /\ result.bytes = InNewProcess(ast).bytes
        /\ result.error = InNewProcess(ast).error
        /\ result.strings = InNewProcess(ast).strings
\* print x has failed to compile after a compilation that was aborted inside
\* a scope declaring x
C24_AfterAbortedScope ==
    /\ phase = "compiled"
    /\ last.name = "compile"
    /\ last.results = <<"CompilerError">>
    /\ last.args[1].body[1].type = "IfStatement"
    /\ ast.body = <<PrintStmt(Ident("x"))>>
    /\ result.error.name = "CompilerError"
    /\ Len(state.scopes) = 1

\* C25: x := e writes the innermost enclosing binding of x when there is one
\* (the outer x from inside an if, the local x that shadows it) and otherwise
\* makes x a variable of the current block only: after the if, while or for
\* whose body first assigned it, x is not declared.
NotDeclared ==
    /\ result.error = [name |-> "CompilerError", message |-> "is not declared"]
    /\ result.bytes = <<>>
AssignedAsStated(body) ==
    /\ (\E a \in NumLits, b \in NumLits : body = UpdateProgram(a, b))
        => /\ NoError
           /\ phase = "done" => output = <<Printed(body[2].thenBranch[1].expression)>>
    /\ (\E a \in NumLits, b \in NumLits : body = InnerProgram(a, b))
        => /\ NoError
           /\ phase = "done"
                => output = <<Printed(body[1].thenBranch[2].thenBranch[1].expression)>>
    /\ (\E a \in NumLits, b \in NumLits, c \in NumLits : body = ShadowProgram(a, b, c))
        => /\ NoError
           /\ phase = "done"
                => output = <<Printed(body[2].thenBranch[2].expression),
                              Printed(body[1].expression)>>
    /\ (\E a \in NumLits : \E block \in BlocksAssigning(a) : body = GoneProgram(block))
        => NotDeclared /\ ~Running
C25_AssignmentScope == Compiled => AssignedAsStated(ast.body)
\* x := 2 after local x := 1 in the if has left the outer x at 0
C25_ShadowUpdated ==
    /\ ast.body = ShadowProgram(Num(0), Num(1), Num(MaxNum))
    /\ phase = "done"
    /\ output = <<Printed(Num(MaxNum)), Printed(Num(0))>>

\* C26: in the body of main and of every user function, each local.get,
\* local.set and local.tee names a local below the number of parameters plus
\* the locals that the body declares.
LocalOps == {"local.get", "local.set", "local.tee"}
LocalsOf(bytes, k) ==
    Len(FuncType(bytes, NumImports(bytes) + k - 1).params)
        + ModCode(bytes).bodies[k].nlocals
LocalsInRange(bytes) ==
    \A k \in 1..Len(ModCode(bytes).bodies) :
        \A n \in 1..Len(ModCode(bytes).bodies[k].code) :
            ModCode(bytes).bodies[k].code[n].op \in LocalOps
                => ModCode(bytes).bodies[k].code[n].a < LocalsOf(bytes, k)
C26_LocalsDeclared == (Compiled /\ NoError) => LocalsInRange(result.bytes)

\* C27: each time the for loop of main comes to its termination test, the
\* local holding the direction has the value computed at the loop's entry
\* (1 for a negative step, 0 otherwise), whatever the body has done.
\* the place of the test in main: the instruction after the first loop
LoopTest ==
    1 + CHOOSE k \in 1..Len(MainCode) :
            /\ MainCode[k].op = "loop"
            /\ \A j \in 1..(k - 1) : MainCode[j].op # "loop"
AtLoopTest ==
    /\ phase = "running"
    /\ Len(frames) = 1
    /\ Peek(frames).pc = LoopTest
C27_DirectionKept ==
    (IsForProgram /\ AtLoopTest)
        => /\ MainCode[LoopTest].op = "local.get"
           /\ Peek(frames).locals[MainCode[LoopTest].a + 1]
                = B2I(StepOf(ast.body[1]) < 0)

\* C28: the pointer a box helper returns is the address at which that call
\* has stored its tag, and the 16-byte cells returned by different calls are
\* apart from each other.
TagOf(name) ==
    CASE name = "box_number" -> TagNumber
    [] name = "box_bool" -> TagBool
    [] name = "box_nil" -> TagNil
    [] OTHER -> TagString
ReturnsOwnCell ==
    (last.name \in Allocators /\ ~last.after.trap) =>
        /\ load(last.after, last.results[1]) = TagOf(last.name)
        /\ \E k \in 1..Len(last.after.events) :
                /\ last.after.events[k].ev = "store"
                /\ last.after.events[k].addr = last.results[1]
CellsApart ==
    \A i \in 1..Len(tally.boxes), j \in 1..Len(tally.boxes) :
        i < j => tally.boxes[i] + BoxSize <= tally.boxes[j]
C28_BoxesOwnCells == ReturnsOwnCell /\ CellsApart

\* C29: in a module compiled without error the function section and the code
\* section have as many entries, for main, the helpers and the user functions
\* in declaration order, and each call names the import count plus the place
\* of its callee in that order, whatever the user functions are called.
PlaceOf(name) ==
    CHOOSE k \in 1..Len(definedFunctions) : definedFunctions[k].name = name
FirstUser(bytes) == NumImports(bytes) + Len(definedFunctions)
SameFunctions(bytes) ==
    LET bodies == ModCode(bytes).bodies IN
    /\ ModCode(bytes).count = Len(ModFuncTypes(bytes))
    /\ Len(bodies) = Len(ModFuncTypes(bytes))
    /\ Len(bodies) = Len(definedFunctions) + 2
    /\ ModMain(bytes) = NumImports(bytes) + PlaceOf("main") - 1
    /\ bodies[PlaceOf("main")].code[1] = I("f64.const", 0)
    /\ \A k \in 1..Len(definedFunctions) :
            k # PlaceOf("main")
                => bodies[k].code = <<I(definedFunctions[k].name, 0)>>
    /\ bodies[Len(definedFunctions) + 1].code[1] = I("f64.const", 1)
    /\ bodies[Len(definedFunctions) + 2].code[1] = I("f64.const", 2)
    /\ FuncType(bytes, FirstUser(bytes)).params = <<>>
    /\ FuncType(bytes, FirstUser(bytes) + 1).params = <<I32T>>
CallSites(bytes) ==
    SubSeq(FuncBody(bytes, ModMain(bytes)).code, 1, 4)
        = <<I("f64.const", 0),
            I("call", NumImports(bytes) + PlaceOf("box_number") - 1),
            I("call", FirstUser(bytes) + 1),
            I("call", FirstUser(bytes))>>
C29_SectionsAgree ==
    (Compiled /\ NoError) => SameFunctions(result.bytes) /\ CallSites(result.bytes)

\* C30: parse returns for every token list ending in EOF, with a ParseError
\* or without; the cursor is never beyond the first EOF; and from every
\* token at which a statement or an expression can start, parsing it either
\* moves the cursor on or throws a ParseError.
\* the cursor at the first EOF
AtEOF(toks) ==
    (CHOOSE k \in 1..Len(toks) :
        isEOF(toks[k]) /\ \A j \in 1..(k - 1) : ~isEOF(toks[j])) - 1
\* r is what parsing from cur returned or threw
Progress(toks, cur, r) ==
    /\ r.err \in {"none", "ParseError"}
    /\ r.cur <= AtEOF(toks)
    /\ r.err = "none" => r.cur > cur
StatementStarts(toks) ==
    {cur \in 0..(AtEOF(toks) - 1) :
        toks[cur + 1].type \notin {"ELSE", "ELIF", "END", "COMMENT"}}
C30_ParseTerminates ==
    phase = "parsed" =>
        /\ parsed.thrown = "none"
        /\ parseStatements(tokens, 0, <<>>).cur <= AtEOF(tokens)
        /\ \A cur \in StatementStarts(tokens) :
                Progress(tokens, cur, parseStatement(tokens, cur))
        /\ \A cur \in 0..(AtEOF(tokens) - 1) :
                Progress(tokens, cur, parseExpression(tokens, cur))
\* x = with nothing after it: the ParseError came with the cursor on EOF
C30_StoppedAtEOF ==
    /\ phase = "parsed"
    /\ tokens = <<IdTok("x"), Word("ASSIGN"), EOFTok>>
    /\ parsed.error.name = "ParseError"
    /\ parseStatements(tokens, 0, <<>>).cur = AtEOF(tokens)
====
